---- MODULE Spec2Model ----
(***************************************************************************)
(* A model of libmicarray (lenik/micarray): the I2S capture ring of        *)
(* src/src/i2s.c, the pipeline driver of src/src/libmicarray.c and the     *)
(* resources micarray_init acquires and micarray_cleanup releases.         *)
(*                                                                         *)
(* The specifications share the variables below:                           *)
(*   SpecRing  the capture ring alone: the read thread of i2s.c pushing    *)
(*             device chunks, and one client calling i2s_start, i2s_stop,  *)
(*             i2s_read_samples and i2s_get_buffer_level.                  *)
(*   Spec      the pipeline after a successful micarray_init: the read     *)
(*             thread with audio_callback registered, the processing       *)
(*             thread, and one client calling micarray_start,              *)
(*             micarray_stop and micarray_get_location. SpecLive is Spec   *)
(*             under fair scheduling.                                      *)
(*   SpecInit  one context from before micarray_init to after              *)
(*             micarray_cleanup, with every allocation free to fail.       *)
(***************************************************************************)
EXTENDS Integers, Sequences, FiniteSets, TLC

(***************************************************************************)
(* Bounds and program constants.                                           *)
(***************************************************************************)
\* config.buffer_size (dma_buffer_size), in samples: the size of one device read.
BufferSize == 2

\* (*ctx)->ring_buffer_size = config->buffer_size * 4     (i2s.c:95)
RingFactor == 4
Capacity == BufferSize * RingFactor

\* The overrun scenario offers 10 x capacity samples in one session.
OverrunStream == 10 * Capacity

\* The device stream of one session of SpecRing: long enough to fill the ring,
\* overrun it and wrap around it.
RingStream == Capacity + 2 * BufferSize

\* The largest n a client passes to i2s_read_samples.
MaxPop == Capacity + 1

\* config.num_microphones.
NumMics == 3
Mics == 1..NumMics

\* The distinct results localization_process may compute (0 is the calloc'ed one).
NumLocations == 2
Locations == 1..NumLocations

MICARRAY_SUCCESS == 0
MICARRAY_ERROR_INIT == -1
MICARRAY_ERROR_CONFIG == -2
MICARRAY_ERROR_I2S == -3
MICARRAY_ERROR_AUDIO_OUTPUT == -5
MICARRAY_ERROR_MEMORY == -6
MICARRAY_ERROR_INVALID_PARAM == -7

Min(a, b) == IF a < b THEN a ELSE b

IsPrefix(s, t) == Len(s) <= Len(t) /\ SubSeq(t, 1, Len(s)) = s

VARIABLES
    \* struct i2s_context (i2s.c:13-28)
    i2s_running,        \* ctx->running
    ring_buffer,        \* ctx->ring_buffer, a function 0..Capacity-1 -> sample
    write_pos,          \* ctx->write_pos
    read_pos,           \* ctx->read_pos
    available_samples,  \* ctx->available_samples
    i2s_mutex,          \* ctx->mutex: "free" or the thread that holds it
    callback,           \* ctx->callback: "none" (NULL) or "audio_callback"
    \* i2s_read_thread
    rt_pc,              \* where the read thread is; "none": no thread exists
    temp_buffer,        \* the chunk of the last device read (samples_read = Len)
    \* struct micarray_context (libmicarray.c:18-35)
    running,            \* ctx->running
    data_mutex,         \* ctx->data_mutex: "free" or the thread that holds it
    current_location,   \* ctx->current_location: [x, y, z, confidence]
    audio_running,      \* ctx->audio_ctx->running
    \* processing_thread_func
    pt_pc,              \* where the processing thread is; "none": no thread exists
    pt_loc,             \* the result localization_process is writing out
    pt_write,           \* the audio_output_write_localized call just made:
                        \* [frames_written, result, prepared], NoWrite otherwise
    \* the client thread calling the API, one call at a time
    cl_pc,              \* where the client is inside a call; "idle" between calls
    cl_op,              \* the call in progress or just done, and the path it took
    cl_ret,             \* the value the call returned
    cl_req,             \* the `samples` argument of i2s_read_samples
    cl_buf,             \* the caller's buffer after i2s_read_samples
    cl_loc,             \* the caller's sound_location_t after micarray_get_location
    \* the environment of the library
    env,                \* [limit: samples the device delivers per session,
                        \*  consumer: whether the client calls i2s_read_samples,
                        \*  counted: whether the device stream is stamped and counted,
                        \*  noise: config.noise_reduction_enable,
                        \*  whole: whether a device read returns a whole buffer or
                        \*         nothing, never a part of one,
                        \*  lanes: config.num_microphones where the chunks in the
                        \*         lanes are followed (whole reads), else 0]
    \* micarray_init and micarray_cleanup
    life_pc,            \* where the context is in its life: "begin" before
                        \* micarray_init, "ready" after it succeeded, ...
    life_ret,           \* what micarray_init or micarray_cleanup returned
    mem,                \* [heap: every resource "never" acquired, "live" or "freed",
                        \*  ptr: the pointer that names it "null", "set" or "uninit",
                        \*  ub: the undefined behaviours executed so far,
                        \*  acquired, released: the resources in the order they
                        \*  were acquired and released (history)]
    \* history variables (not program state)
    offered,            \* samples handed to the push loop since i2s_start
    dropped,            \* offered samples the push loop did not store
    accepted,           \* the samples the push loop stored since i2s_start, in order
    returned,           \* the samples i2s_read_samples returned since i2s_start, in order
    io_error,           \* a worker thread has met a persistent device error since
                        \* i2s_start
    cl_after_err,       \* the client's call began after such an error
    \* struct audio_output_context (audio_output.c:10-21) and its two users
    volume,             \* audio_ctx->config.volume, a float
    cfg_volume,         \* ctx->config.volume of the micarray context, a float
    audio_mutex,        \* audio_ctx->mutex: "free" or the thread that holds it
    sv_pc,              \* where the thread calling set_volume is; "idle" between calls
    sv_op,              \* the set_volume entry point of the call in progress
    sv_arg,             \* the `volume` argument of the call in progress
    sv_done,            \* a set_volume call has stored a volume (history)
    ws_pc,              \* where the thread inside audio_output_write_stereo is
    ws_gain,            \* the volume the last write scaled its samples by
    \* struct noise_reduction_context (noise_reduction.c:10-29) and the call of
    \* noise_reduction_process in progress
    nr_pc,              \* "none": no context; "ready": between calls; "loop": inside
                        \* the while loop; "undefined": after undefined behaviour
    nr_config,          \* ctx->config: [frame_size, overlap]
    buffer_pos,         \* ctx->buffer_pos
    nr_samples,         \* the `samples` argument
    processed,          \* the local `processed`
    nr_written,         \* the positions of `output` the call has assigned
    nr_ret,             \* what the last noise_reduction call returned
    \* struct localization_context (localization.c:10-20) and the last call of
    \* localization_process
    loc_ctx,            \* ctx->config: [num_microphones, mic_positions,
                        \* correlation_window_size, max_delay, min_confidence_threshold]
    loc_call,           \* the arguments: [mic_data, samples]
    loc_res,            \* [ret, path: the return the call took, avg_confidence: the
                        \* local of that name, location: what *location holds]
    \* the four mutexes and the threads that take them
    lk_holder,          \* for each mutex, "free" or the thread that holds it
    lk_op,              \* for each thread, the operation it is in, "none" between
    lk_pc,              \* for each thread, how many lock steps of it are done
    \* the signal path of the driver (libmicarray.c:43-113)
    lane_chunk,         \* what the lanes hold: "none" before the first chunk,
                        \* "fresh" a chunk no iteration has processed yet,
                        \* "processed" a chunk an iteration has processed
    num_microphones,    \* ctx->config.num_microphones
    mic_buffers,        \* ctx->mic_buffers: for each microphone its lane
    processed_buffer,   \* ctx->processed_buffer: the mono downmix
    cb_data,            \* the chunk of the last audio_callback call
    cb_calls,           \* how many calls of audio_callback have returned
    cb_oob,             \* whether a call stored outside a lane
    blk_pc,             \* "none", "stored" after audio_callback, "mixed" after an
                        \* iteration of the processing thread
    \* whose samples the one noise_reduction_context holds (history variables)
    dn_lane,            \* the index i of the loop of libmicarray.c:74
    nr_channel,         \* the lane the call of noise_reduction_process is for
    input_src,          \* for each filled slot of ctx->input_buffer, the lane its
                        \* sample came from
    overlap_src,        \* the lanes whose samples ctx->overlap_buffer was computed from
    out_src,            \* the lanes whose samples the output of the call in
                        \* progress, or of the last call, was computed from
    \* the last call of apply_stereo_panning (audio_output.c:23-44)
    pan_call,           \* its arguments: [mono_data, location]
    pan_out,            \* what it left in left_out and right_out
    \* the noise profile of the noise_reduction_context (noise_reduction.c:23, 28)
    noise_spectrum,     \* ctx->noise_spectrum: the windowed frames whose per-bin
                        \* magnitudes were averaged into it; none: every bin is zero
    noise_profile_ready \* ctx->noise_profile_ready

i2sVars == <<i2s_running, ring_buffer, write_pos, read_pos, available_samples, i2s_mutex,
             callback>>
rtVars == <<rt_pc, temp_buffer>>
drvVars == <<running, data_mutex, current_location, audio_running>>
ptVars == <<pt_pc, pt_loc, pt_write>>
clVars == <<cl_pc, cl_op, cl_ret, cl_req, cl_buf, cl_loc, cl_after_err>>
histVars == <<offered, dropped, accepted, returned>>
lifeVars == <<life_pc, life_ret, mem>>
\* What no step of the running library changes.
volVars == <<volume, cfg_volume, audio_mutex, sv_pc, sv_op, sv_arg, sv_done, ws_pc, ws_gain>>
nrVars == <<nr_pc, nr_config, buffer_pos, nr_samples, processed, nr_written, nr_ret>>
locVars == <<loc_ctx, loc_call, loc_res>>
lkVars == <<lk_holder, lk_op, lk_pc>>
\* The lanes, the downmix and what else the signal path keeps.
blkVars == <<num_microphones, mic_buffers, processed_buffer, cb_data, cb_calls, cb_oob, blk_pc>>
srcVars == <<dn_lane, nr_channel, input_src, overlap_src, out_src>>
panVars == <<pan_call, pan_out>>
profVars == <<noise_spectrum, noise_profile_ready>>
sigVars == <<lane_chunk, blkVars, srcVars, panVars, profVars>>
\* All of envVars but lane_chunk.
restVars == <<env, lifeVars, volVars, nrVars, locVars, lkVars, blkVars, srcVars, panVars,
              profVars>>
envVars == <<env, lifeVars, volVars, nrVars, locVars, lkVars, sigVars>>
vars == <<i2sVars, rtVars, drvVars, ptVars, clVars, envVars, histVars, io_error>>

(***************************************************************************)
(* The ring's loops, computed as the code computes them.                   *)
(***************************************************************************)
\* i2s.c:56-60: the push loop, from index i of the chunk buf.
RECURSIVE PushLoop(_, _, _, _, _)
PushLoop(rb, wp, av, buf, i) ==
    IF i < Len(buf) /\ av < Capacity
    THEN PushLoop([rb EXCEPT ![wp] = buf[i + 1]], (wp + 1) % Capacity, av + 1, buf, i + 1)
    ELSE [rb |-> rb, wp |-> wp, av |-> av, n |-> i]

\* The push loop without its room test: every sample of the chunk is stored.
RECURSIVE PushLoopNoRoomTest(_, _, _, _, _)
PushLoopNoRoomTest(rb, wp, av, buf, i) ==
    IF i < Len(buf)
    THEN PushLoopNoRoomTest([rb EXCEPT ![wp] = buf[i + 1]], (wp + 1) % Capacity, av + 1, buf, i + 1)
    ELSE [rb |-> rb, wp |-> wp, av |-> av, n |-> i]

RingPushNoRoomTest(rb, wp, av, buf) == PushLoopNoRoomTest(rb, wp, av, buf, 0)

\* The push loop storing the chunk from its end: the newest samples win.
RingPushKeepNewest(rb, wp, av, buf) ==
    LET k == Min(Len(buf), Capacity - av)
    IN PushLoop(rb, wp, av, SubSeq(buf, Len(buf) - k + 1, Len(buf)), 0)

RingPush(rb, wp, av, buf) == PushLoop(rb, wp, av, buf, 0)

\* i2s.c:204-208: the pop loop, n samples still to read into out.
RECURSIVE PopLoop(_, _, _, _, _)
PopLoop(rb, rp, av, out, n) ==
    IF n > 0
    THEN PopLoop(rb, (rp + 1) % Capacity, av - 1, Append(out, rb[rp]), n - 1)
    ELSE [rp |-> rp, av |-> av, out |-> out]

\* The pop loop forgetting to count the samples it hands out.
RECURSIVE PopLoopNoCount(_, _, _, _, _)
PopLoopNoCount(rb, rp, av, out, n) ==
    IF n > 0
    THEN PopLoopNoCount(rb, (rp + 1) % Capacity, av, Append(out, rb[rp]), n - 1)
    ELSE [rp |-> rp, av |-> av, out |-> out]

RingPopNoCount(rb, rp, av, samples) ==
    PopLoopNoCount(rb, rp, av, <<>>, Min(samples, av))

\* The pop loop handing out samples without moving read_pos.
RingPopNoAdvance(rb, rp, av, samples) ==
    [PopLoop(rb, rp, av, <<>>, Min(samples, av)) EXCEPT !.rp = rp]

\* The pop loop reading the newest slot first.
RingPopNewestFirst(rb, rp, av, samples) ==
    LET r == PopLoop(rb, rp, av, <<>>, Min(samples, av))
    IN [r EXCEPT !.out = [j \in 1..Len(r.out) |-> r.out[Len(r.out) + 1 - j]]]

\* i2s.c:202-208: samples_to_read = min(samples, available), then the loop.
RingPop(rb, rp, av, samples) ==
    PopLoop(rb, rp, av, <<>>, Min(samples, av))

\* The chunk a device read of n samples returns when `offered` samples were
\* delivered before it. The code copies samples and never looks at their values,
\* so a counted stream names each sample by its place in the session's stream;
\* an uncounted stream is silence.
DeviceChunk(n) == [j \in 1..n |-> IF env.counted THEN offered + j ELSE 0]

(***************************************************************************)
(* i2s_read_thread (i2s.c:30-73).                                          *)
(***************************************************************************)
\* i2s.c:32-37: the thread allocates its chunk buffer, or returns at once.
ReadThreadEntry ==
    /\ rt_pc = "entry"
    /\ \E allocated \in BOOLEAN : rt_pc' = IF allocated THEN "loop" ELSE "exited"
    /\ UNCHANGED <<i2sVars, temp_buffer, drvVars, ptVars, clVars, envVars, histVars, io_error>>

\* i2s.c:39: while (ctx->running); i2s.c:71-72 when it is false.
ReadThreadLoop ==
    /\ rt_pc = "loop"
    /\ rt_pc' = IF i2s_running THEN "read" ELSE "exited"
    /\ UNCHANGED <<i2sVars, temp_buffer, drvVars, ptVars, clVars, envVars, histVars, io_error>>

\* i2s.c:40-52: read() returned bytes >= 0; samples_read = bytes_read / 2.
ReadThreadRead ==
    /\ rt_pc = "read"
    /\ \E bytes \in 0..(2 * BufferSize) :
          /\ env.counted => offered + (bytes \div 2) <= env.limit
          /\ env.whole => bytes \in {0, 2 * BufferSize}
          /\ temp_buffer' = DeviceChunk(bytes \div 2)
    /\ rt_pc' = "lock"
    /\ UNCHANGED <<i2sVars, drvVars, ptVars, clVars, envVars, histVars, io_error>>

\* i2s.c:43-47: read() failed with EAGAIN or EWOULDBLOCK: sleep and retry.
ReadThreadAgain ==
    /\ rt_pc = "read"
    /\ rt_pc' = "loop"
    /\ UNCHANGED <<i2sVars, temp_buffer, drvVars, ptVars, clVars, envVars, histVars, io_error>>

\* i2s.c:48-49, 71-72: any other read() failure: print, leave the loop, return.
\* Nothing of the context is written.
ReadThreadError ==
    /\ rt_pc = "read"
    /\ rt_pc' = "exited"
    /\ io_error' = TRUE
    /\ UNCHANGED <<i2sVars, temp_buffer, drvVars, ptVars, clVars, envVars, histVars>>

\* i2s.c:54: pthread_mutex_lock(&ctx->mutex).
ReadThreadLock ==
    /\ rt_pc = "lock"
    /\ i2s_mutex = "free"
    /\ i2s_mutex' = "reader"
    /\ rt_pc' = "push"
    /\ UNCHANGED <<i2s_running, ring_buffer, write_pos, read_pos, available_samples,
                   callback, temp_buffer, drvVars, ptVars, clVars, envVars, histVars, io_error>>

\* i2s.c:56-60: the push loop, inside the critical section.
ReadThreadPush ==
    /\ rt_pc = "push"
    /\ LET r == RingPush(ring_buffer, write_pos, available_samples, temp_buffer)
       IN /\ ring_buffer' = r.rb
          /\ write_pos' = r.wp
          /\ available_samples' = r.av
          /\ offered' = IF env.counted THEN offered + Len(temp_buffer) ELSE offered
          /\ dropped' = IF env.counted THEN dropped + (Len(temp_buffer) - r.n) ELSE dropped
          /\ accepted' = IF env.counted THEN accepted \o SubSeq(temp_buffer, 1, r.n)
                                          ELSE accepted
    /\ rt_pc' = "unlock"
    /\ UNCHANGED <<i2s_running, read_pos, i2s_mutex, callback, temp_buffer, drvVars, ptVars,
                   clVars, envVars, returned, io_error>>

\* i2s.c:62-68: unlock; with a callback and samples_read > 0 call the callback;
\* otherwise usleep(100) and loop. The chunk is dead from here on: the next
\* read overwrites it.
ReadThreadUnlock ==
    /\ rt_pc = "unlock"
    /\ i2s_mutex' = "free"
    /\ rt_pc' = IF callback # "none" /\ Len(temp_buffer) > 0 THEN "callback" ELSE "loop"
    /\ temp_buffer' = <<>>
    /\ UNCHANGED <<i2s_running, ring_buffer, write_pos, read_pos, available_samples,
                   callback, drvVars, ptVars, clVars, envVars, histVars, io_error>>

(***************************************************************************)
(* audio_callback (libmicarray.c:43-62), run by the read thread.           *)
(***************************************************************************)
\* libmicarray.c:46-48: return at once when the pipeline is not running.
CallbackEntry ==
    /\ rt_pc = "callback"
    /\ rt_pc' = IF running THEN "cb_lock" ELSE "loop"
    /\ UNCHANGED <<i2sVars, temp_buffer, drvVars, ptVars, clVars, envVars, histVars, io_error>>

\* libmicarray.c:50: pthread_mutex_lock(&ctx->data_mutex).
CallbackLock ==
    /\ rt_pc = "cb_lock"
    /\ data_mutex = "free"
    /\ data_mutex' = "reader"
    /\ rt_pc' = "cb_copy"
    /\ UNCHANGED <<i2sVars, temp_buffer, running, current_location, audio_running, ptVars,
                   clVars, envVars, histVars, io_error>>

\* libmicarray.c:52-61: the de-interleave loop into the lanes, the unlock and the
\* return; then i2s.c:68. A chunk of BufferSize samples holds
\* BufferSize / num_microphones frames (line 56); with one frame or more the
\* lanes hold a chunk no iteration has seen.
CallbackCopy ==
    /\ rt_pc = "cb_copy"
    /\ data_mutex' = "free"
    /\ rt_pc' = "loop"
    /\ lane_chunk' = IF env.lanes > 0 /\ BufferSize \div env.lanes > 0
                     THEN "fresh" ELSE lane_chunk
    /\ UNCHANGED <<i2sVars, temp_buffer, running, current_location, audio_running, ptVars,
                   clVars, restVars, histVars, io_error>>

(***************************************************************************)
(* API calls of the one client thread. A call ends in "done" with its      *)
(* result in cl_op, cl_ret, cl_buf and cl_loc; the caller then takes the   *)
(* result and is "idle" again.                                             *)
(***************************************************************************)
Call(op) ==
    /\ cl_pc = "idle"
    /\ cl_op' = op
    /\ cl_after_err' = io_error

Return(ret) ==
    /\ cl_pc' = "done"
    /\ cl_ret' = ret

NoLocation == [x |-> 0, y |-> 0, z |-> 0, confidence |-> 0]

NoWrite == [frames_written |-> "none", result |-> MICARRAY_SUCCESS, prepared |-> FALSE]

ClientReturn ==
    /\ cl_pc = "done"
    /\ cl_pc' = "idle"
    /\ cl_op' = "none"
    /\ cl_ret' = MICARRAY_SUCCESS
    /\ cl_req' = 0
    /\ cl_buf' = <<>>
    /\ cl_loc' = NoLocation
    /\ cl_after_err' = FALSE
    /\ UNCHANGED <<i2sVars, rtVars, drvVars, ptVars, envVars, histVars, io_error>>

(***************************************************************************)
(* The i2s API (i2s.c:136-240).                                            *)
(***************************************************************************)
\* i2s.c:145-155: the reset of the ring and pthread_create, which may fail.
I2sStartFresh(created) ==
    /\ write_pos' = 0
    /\ read_pos' = 0
    /\ available_samples' = 0
    /\ i2s_running' = created
    /\ rt_pc' = IF created THEN "entry" ELSE rt_pc
    /\ offered' = 0
    /\ dropped' = 0
    /\ accepted' = <<>>
    /\ returned' = <<>>
    /\ io_error' = FALSE
    /\ UNCHANGED <<ring_buffer, i2s_mutex, callback, temp_buffer>>

\* i2s.c:141-143: i2s_start on a running context.
I2sStartRunning ==
    /\ Call("i2s_start_noop")
    /\ i2s_running
    /\ Return(MICARRAY_SUCCESS)
    /\ UNCHANGED <<cl_req, cl_buf, cl_loc, i2sVars, rtVars, drvVars, ptVars, envVars, histVars,
                   io_error>>

\* i2s.c:136-156: i2s_start on a context that is not running.
I2sStart ==
    /\ Call("i2s_start")
    /\ ~i2s_running
    /\ \E created \in BOOLEAN :
          /\ I2sStartFresh(created)
          /\ Return(IF created THEN MICARRAY_SUCCESS ELSE MICARRAY_ERROR_INIT)
    /\ UNCHANGED <<cl_req, cl_buf, cl_loc, drvVars, ptVars, envVars>>

\* i2s.c:163-165: i2s_stop on a context that is not running.
I2sStopNotRunning ==
    /\ Call("i2s_stop_noop")
    /\ ~i2s_running
    /\ Return(MICARRAY_SUCCESS)
    /\ UNCHANGED <<cl_req, cl_buf, cl_loc, i2sVars, rtVars, drvVars, ptVars, envVars, histVars,
                   io_error>>

\* i2s.c:167: ctx->running = false, before the join.
I2sStop ==
    /\ Call("i2s_stop")
    /\ i2s_running
    /\ i2s_running' = FALSE
    /\ cl_pc' = "i2s_join"
    /\ UNCHANGED <<cl_ret, cl_req, cl_buf, cl_loc, ring_buffer, write_pos, read_pos,
                   available_samples, i2s_mutex, callback, rtVars, drvVars, ptVars, envVars,
                   histVars, io_error>>

\* i2s.c:169-174: pthread_join returns once the read thread has returned.
I2sStopJoin ==
    /\ cl_pc = "i2s_join"
    /\ rt_pc = "exited"
    /\ rt_pc' = "none"
    /\ Return(MICARRAY_SUCCESS)
    /\ UNCHANGED <<cl_op, cl_req, cl_buf, cl_loc, cl_after_err, i2sVars, temp_buffer,
                   drvVars, ptVars, envVars, histVars, io_error>>

\* i2s.c:200: i2s_read_samples takes the mutex.
I2sReadLock ==
    /\ Call("i2s_read_samples")
    /\ env.consumer
    /\ i2s_mutex = "free"
    /\ i2s_mutex' = "client"
    /\ cl_pc' = "pop"
    /\ UNCHANGED <<cl_ret, cl_req, cl_buf, cl_loc, i2s_running, ring_buffer, write_pos,
                   read_pos, available_samples, callback, rtVars, drvVars, ptVars, envVars,
                   histVars, io_error>>

\* i2s.c:202-208: the pop of `samples` samples, inside the critical section.
I2sReadPop ==
    /\ cl_pc = "pop"
    /\ \E samples \in 0..MaxPop :
          LET r == RingPop(ring_buffer, read_pos, available_samples, samples)
          IN /\ read_pos' = r.rp
             /\ available_samples' = r.av
             /\ cl_req' = samples
             /\ cl_buf' = r.out
             /\ cl_ret' = Len(r.out)
             /\ returned' = returned \o r.out
    /\ cl_pc' = "pop_unlock"
    /\ UNCHANGED <<cl_op, cl_loc, cl_after_err, i2s_running, ring_buffer, write_pos,
                   i2s_mutex, callback, rtVars, drvVars, ptVars, envVars, offered, dropped,
                   accepted, io_error>>

\* i2s.c:210-212: unlock and return samples_to_read.
I2sReadUnlock ==
    /\ cl_pc = "pop_unlock"
    /\ i2s_mutex' = "free"
    /\ cl_pc' = "done"
    /\ UNCHANGED <<cl_op, cl_ret, cl_req, cl_buf, cl_loc, cl_after_err, i2s_running,
                   ring_buffer, write_pos, read_pos, available_samples, callback, rtVars,
                   drvVars, ptVars, envVars, histVars, io_error>>

\* i2s.c:235-236: i2s_get_buffer_level reads the level under the mutex.
I2sLevelLock ==
    /\ Call("i2s_get_buffer_level")
    /\ i2s_mutex = "free"
    /\ i2s_mutex' = "client"
    /\ cl_pc' = "level_unlock"
    /\ cl_ret' = available_samples
    /\ UNCHANGED <<cl_req, cl_buf, cl_loc, i2s_running, ring_buffer, write_pos, read_pos,
                   available_samples, callback, rtVars, drvVars, ptVars, envVars, histVars,
                   io_error>>

\* i2s.c:237-239: unlock and return the level.
I2sLevelUnlock ==
    /\ cl_pc = "level_unlock"
    /\ i2s_mutex' = "free"
    /\ cl_pc' = "done"
    /\ UNCHANGED <<cl_op, cl_ret, cl_req, cl_buf, cl_loc, cl_after_err, i2s_running,
                   ring_buffer, write_pos, read_pos, available_samples, callback, rtVars,
                   drvVars, ptVars, envVars, histVars, io_error>>

(***************************************************************************)
(* micarray_init and micarray_cleanup (libmicarray.c:115-305, 371-416):    *)
(* what they acquire and what they release. The sub-contexts of logging,   *)
(* I2S, noise reduction and audio output are one resource each: their init *)
(* functions release what they acquired before they report a failure       *)
(* (logging.c:85-130, i2s.c:75-134, noise_reduction.c:67-122,              *)
(* audio_output.c:46-184). localization_init is modelled allocation by     *)
(* allocation.                                                             *)
(***************************************************************************)
R(name) == <<name, 0>>

Resources ==
    {R(n) : n \in {"ctx", "data_mutex", "log_ctx", "mic_buffers", "processed_buffer",
                   "i2s_ctx", "noise_ctx", "mic_positions", "loc_ctx", "loc_arrays",
                   "correlation_buffers", "audio_ctx"}}
        \cup {<<"mic_buffer", i>> : i \in Mics}
        \cup {<<"correlation_buffer", i>> : i \in Mics}

\* A successful malloc, calloc, *_init or pthread_mutex_init.
Acquire(m, r) ==
    [m EXCEPT !.heap[r] = "live", !.ptr[r] = "set", !.acquired = Append(@, r)]

\* A successful malloc of an array of NumMics pointers: its slots are
\* indeterminate until they are assigned.
AcquireArray(m, r, slot) ==
    [m EXCEPT !.heap[r] = "live",
              !.acquired = Append(@, r),
              !.ptr = [q \in Resources |->
                          IF q = r THEN "set"
                          ELSE IF q \in {<<slot, i>> : i \in Mics} THEN "uninit"
                          ELSE @[q]]]

\* A failed allocation: the pointer is assigned NULL.
SetNull(m, r) == [m EXCEPT !.ptr[r] = "null"]

\* The release of the resource r.
Release(m, r) ==
    IF m.heap[r] = "live" THEN [m EXCEPT !.heap[r] = "freed", !.released = Append(@, r)]
    ELSE IF m.heap[r] = "freed" THEN [m EXCEPT !.ub = @ \cup {"double_release"}]
    ELSE [m EXCEPT !.ub = @ \cup {"release_never_acquired"}]

\* free(p) of the pointer that names r: nothing for NULL. An indeterminate
\* pointer happens to be NULL or not (junk), as the build and the heap decide.
Free(m, r, junk) ==
    IF m.ptr[r] = "null" \/ (m.ptr[r] = "uninit" /\ ~junk) THEN m ELSE Release(m, r)

\* for (i = 0; i < num_microphones; i++) free(array[i]), from slot i on.
RECURSIVE FreeEach(_, _, _, _)
FreeEach(m, slot, i, junk) ==
    IF i > NumMics THEN m ELSE FreeEach(Free(m, <<slot, i>>, junk), slot, i + 1, junk)

\* for (j = 0; j < i; j++) free(array[j]) (libmicarray.c:187-189): the slots
\* below i, from the first one up.
RECURSIVE FreeBelow(_, _, _, _)
FreeBelow(m, slot, i, junk) ==
    IF i <= 1 THEN m ELSE Free(FreeBelow(m, slot, i - 1, junk), <<slot, i - 1>>, junk)

\* A read of a field of the structure r.
ReadOf(m, r) ==
    IF m.heap[r] = "live" THEN m ELSE [m EXCEPT !.ub = @ \cup {"read_freed"}]

\* The slot the allocation loop is at: the slots below it are assigned.
NextSlot(m, slot) == Cardinality({i \in Mics : m.ptr[<<slot, i>>] = "set"}) + 1

\* localization.c:274-292.
localization_cleanup(m, junk) ==
    LET m1 == IF m.ptr[R("correlation_buffers")] # "null"
              THEN Release(FreeEach(m, "correlation_buffer", 1, junk),
                           R("correlation_buffers"))
              ELSE m
        m2 == Free(m1, R("loc_arrays"), junk)
    IN Release(m2, R("loc_ctx"))

\* libmicarray.c:371-416. micarray_stop (376) reads ctx->running and returns
\* at once on a context that is not running; dma_ctx is never assigned.
\* Lines 376-388: audio output, localization, noise reduction.
CleanupComponents(m, junk) ==
    LET m0 == ReadOf(m, R("ctx"))
        m1 == IF m0.ptr[R("audio_ctx")] # "null" THEN Release(m0, R("audio_ctx")) ELSE m0
        m2 == IF m1.ptr[R("loc_ctx")] # "null" THEN localization_cleanup(m1, junk) ELSE m1
    IN IF m2.ptr[R("noise_ctx")] # "null" THEN Release(m2, R("noise_ctx")) ELSE m2

\* Lines 390-415: i2s_cleanup, the lanes, the mono buffer, logging, the data
\* mutex, the context.
CleanupRest(m3, junk) ==
    LET m4 == IF m3.ptr[R("i2s_ctx")] # "null" THEN Release(m3, R("i2s_ctx")) ELSE m3
        m5 == IF m4.ptr[R("mic_buffers")] # "null"
              THEN Release(FreeEach(m4, "mic_buffer", 1, junk), R("mic_buffers"))
              ELSE m4
        m6 == Free(m5, R("processed_buffer"), junk)
        m7 == IF m6.ptr[R("log_ctx")] # "null" THEN Release(m6, R("log_ctx")) ELSE m6
        m8 == Release(m7, R("data_mutex"))
    IN Release(m8, R("ctx"))

micarray_cleanup(m, junk) == CleanupRest(CleanupComponents(m, junk), junk)

\* logging_cleanup, pthread_mutex_destroy, free(*ctx): the tail of the hand
\* written rollbacks (libmicarray.c:177-179, 191-193, 205-207).
RollbackTail(m) == Release(Release(Release(m, R("log_ctx")), R("data_mutex")), R("ctx"))

\* micarray_init returns the failure ret, with *ctx = NULL.
InitFails(m, ret) ==
    /\ mem' = SetNull(m, R("ctx"))
    /\ life_ret' = ret
    /\ life_pc' = "failed"

\* micarray_init goes on to its next step.
InitGoes(m, pc) ==
    /\ mem' = m
    /\ life_pc' = pc
    /\ UNCHANGED life_ret

runVars == <<i2sVars, rtVars, drvVars, ptVars, clVars, env, volVars, nrVars, locVars, lkVars, sigVars,
            histVars, io_error>>

\* libmicarray.c:116-123: the parameter test and the calloc of the context.
InitContext ==
    /\ life_pc = "begin"
    /\ \E outcome \in {"no_config_file", "no_memory", "ok"} :
          CASE outcome = "no_config_file" -> InitFails(mem, MICARRAY_ERROR_INVALID_PARAM)
            [] outcome = "no_memory" -> InitFails(mem, MICARRAY_ERROR_MEMORY)
            [] OTHER -> InitGoes(Acquire(mem, R("ctx")), "config")
    /\ UNCHANGED runVars

\* libmicarray.c:125-139: config_parse_file and config_validate.
InitConfig ==
    /\ life_pc = "config"
    /\ \E outcome \in {"parse_fails", "validate_fails", "ok"} :
          IF outcome = "ok"
          THEN InitGoes(mem, "mutex")
          ELSE InitFails(Release(mem, R("ctx")), MICARRAY_ERROR_CONFIG)
    /\ UNCHANGED runVars

\* libmicarray.c:141-145: pthread_mutex_init of the data mutex.
InitMutex ==
    /\ life_pc = "mutex"
    /\ \E ok \in BOOLEAN :
          IF ok
          THEN InitGoes(Acquire(mem, R("data_mutex")), "logging")
          ELSE InitFails(Release(mem, R("ctx")), MICARRAY_ERROR_INIT)
    /\ UNCHANGED runVars

\* libmicarray.c:147-170: logging_init.
InitLogging ==
    /\ life_pc = "logging"
    /\ \E result \in {MICARRAY_SUCCESS, MICARRAY_ERROR_MEMORY, MICARRAY_ERROR_INIT} :
          IF result = MICARRAY_SUCCESS
          THEN InitGoes(Acquire(mem, R("log_ctx")), "mic_buffers")
          ELSE InitFails(Release(Release(mem, R("data_mutex")), R("ctx")), result)
    /\ UNCHANGED runVars

\* libmicarray.c:175-182: the array of lane pointers.
InitMicBuffers ==
    /\ life_pc = "mic_buffers"
    /\ \E ok \in BOOLEAN :
          IF ok
          THEN InitGoes(AcquireArray(mem, R("mic_buffers"), "mic_buffer"), "lanes")
          ELSE InitFails(RollbackTail(mem), MICARRAY_ERROR_MEMORY)
    /\ UNCHANGED runVars

\* libmicarray.c:184-197: one turn of the loop that allocates the lanes.
InitLane ==
    /\ life_pc = "lanes"
    /\ LET i == NextSlot(mem, "mic_buffer")
       IN \E ok \in BOOLEAN :
             IF ok
             THEN InitGoes(Acquire(mem, <<"mic_buffer", i>>),
                           IF i = NumMics THEN "processed" ELSE "lanes")
             ELSE InitFails(RollbackTail(Release(
                                FreeBelow(SetNull(mem, <<"mic_buffer", i>>),
                                          "mic_buffer", i, FALSE),
                                R("mic_buffers"))),
                            MICARRAY_ERROR_MEMORY)
    /\ UNCHANGED runVars

\* libmicarray.c:199-210: the mono buffer.
InitProcessed ==
    /\ life_pc = "processed"
    /\ \E ok \in BOOLEAN :
          IF ok
          THEN InitGoes(Acquire(mem, R("processed_buffer")), "i2s")
          ELSE InitFails(RollbackTail(Release(FreeEach(mem, "mic_buffer", 1, FALSE),
                                              R("mic_buffers"))),
                         MICARRAY_ERROR_MEMORY)
    /\ UNCHANGED runVars

\* libmicarray.c:220-228: i2s_init; from here on a failure calls micarray_cleanup.
InitI2sContext ==
    /\ life_pc = "i2s"
    /\ \E result \in {MICARRAY_SUCCESS, MICARRAY_ERROR_MEMORY, MICARRAY_ERROR_INIT,
                        MICARRAY_ERROR_I2S}, junk \in BOOLEAN :
          IF result = MICARRAY_SUCCESS
          THEN InitGoes(Acquire(mem, R("i2s_ctx")), "noise")
          ELSE InitFails(micarray_cleanup(mem, junk), result)
    /\ UNCHANGED runVars

\* libmicarray.c:230-248: noise_reduction_init, when the configuration asks for it.
InitNoise ==
    /\ life_pc = "noise"
    /\ \E result \in {MICARRAY_SUCCESS, MICARRAY_ERROR_MEMORY, MICARRAY_ERROR_INIT},
          junk \in BOOLEAN :
          IF ~env.noise
          THEN InitGoes(mem, "positions")
          ELSE IF result = MICARRAY_SUCCESS
          THEN InitGoes(Acquire(mem, R("noise_ctx")), "positions")
          ELSE InitFails(micarray_cleanup(mem, junk), result)
    /\ UNCHANGED runVars

\* libmicarray.c:250-255: the temporary array of microphone positions.
InitPositions ==
    /\ life_pc = "positions"
    /\ \E ok \in BOOLEAN, junk \in BOOLEAN :
          IF ok
          THEN InitGoes(Acquire(mem, R("mic_positions")), "loc_ctx")
          ELSE InitFails(micarray_cleanup(mem, junk), MICARRAY_ERROR_MEMORY)
    /\ UNCHANGED runVars

\* libmicarray.c:274-281 after localization_init failed: free(mic_positions),
\* micarray_cleanup, *ctx = NULL, return.
LocalizationFails(m, junk) ==
    InitFails(micarray_cleanup(Release(m, R("mic_positions")), junk), MICARRAY_ERROR_MEMORY)

\* localization.c:161-163, 180-182, 188-190: localization_cleanup(*ctx); *ctx = NULL.
LocalizationUndo(m, junk) == SetNull(localization_cleanup(m, junk), R("loc_ctx"))

\* localization.c:145-148: the calloc of the localization context.
LocContext ==
    /\ life_pc = "loc_ctx"
    /\ \E ok \in BOOLEAN, junk \in BOOLEAN :
          IF ok
          THEN InitGoes(Acquire(mem, R("loc_ctx")), "loc_arrays")
          ELSE LocalizationFails(mem, junk)
    /\ UNCHANGED runVars

\* localization.c:156-164: mic_positions, delay_estimates, confidence_values.
LocArrays ==
    /\ life_pc = "loc_arrays"
    /\ \E ok \in BOOLEAN, junk \in BOOLEAN :
          IF ok
          THEN InitGoes(Acquire(mem, R("loc_arrays")), "correlation_buffers")
          ELSE LocalizationFails(LocalizationUndo(mem, junk), junk)
    /\ UNCHANGED runVars

\* localization.c:178-183: the malloc of the array of correlation buffers.
LocCorrelationBuffers ==
    /\ life_pc = "correlation_buffers"
    /\ \E ok \in BOOLEAN, junk \in BOOLEAN :
          IF ok
          THEN InitGoes(AcquireArray(mem, R("correlation_buffers"), "correlation_buffer"),
                        "correlation_buffer")
          ELSE LocalizationFails(LocalizationUndo(mem, junk), junk)
    /\ UNCHANGED runVars

\* localization.c:185-194: one turn of the loop that allocates the correlation
\* buffers; after the last one, libmicarray.c:275 frees the temporary array.
LocCorrelationBuffer ==
    /\ life_pc = "correlation_buffer"
    /\ LET i == NextSlot(mem, "correlation_buffer")
       IN \E ok \in BOOLEAN, junk \in BOOLEAN :
             IF ok
             THEN IF i = NumMics
                  THEN InitGoes(Release(Acquire(mem, <<"correlation_buffer", i>>),
                                        R("mic_positions")), "audio")
                  ELSE InitGoes(Acquire(mem, <<"correlation_buffer", i>>),
                                "correlation_buffer")
             ELSE LocalizationFails(
                      LocalizationUndo(SetNull(mem, <<"correlation_buffer", i>>), junk),
                      junk)
    /\ UNCHANGED runVars

\* libmicarray.c:283-304: audio_output_init, then the successful return.
InitAudio ==
    /\ life_pc = "audio"
    /\ \E result \in {MICARRAY_SUCCESS, MICARRAY_ERROR_MEMORY, MICARRAY_ERROR_INIT,
                        MICARRAY_ERROR_AUDIO_OUTPUT}, junk \in BOOLEAN :
          IF result = MICARRAY_SUCCESS
          THEN /\ mem' = Acquire(mem, R("audio_ctx"))
               /\ life_ret' = MICARRAY_SUCCESS
               /\ life_pc' = "ready"
          ELSE InitFails(micarray_cleanup(mem, junk), result)
    /\ UNCHANGED runVars

\* libmicarray.c:371-416: the user's micarray_cleanup(ctx), a first or a second
\* time. The second call works on freed memory: it finds the values the first
\* call left there, or the process is aborted.
MicarrayCleanup ==
    /\ life_pc \in {"ready", "cleaned"}
    /\ \E junk \in BOOLEAN, outcome \in {"returns", "aborts"} :
          /\ outcome = "aborts" => mem.heap[R("ctx")] # "live"
          /\ mem' = IF outcome = "returns" THEN micarray_cleanup(mem, junk)
                                           ELSE ReadOf(mem, R("ctx"))
          /\ life_pc' = IF outcome = "aborts" THEN "aborted"
                        ELSE IF life_pc = "ready" THEN "cleaned" ELSE "cleaned_again"
    /\ life_ret' = MICARRAY_SUCCESS
    /\ UNCHANGED runVars

\* libmicarray.c:372-374: micarray_cleanup(NULL), the pointer a failed
\* micarray_init leaves to its caller.
MicarrayCleanupNull ==
    /\ life_pc = "failed"
    /\ mem.ptr[R("ctx")] = "null"
    /\ life_pc' = "failed_cleaned"
    /\ life_ret' = MICARRAY_ERROR_INVALID_PARAM
    /\ UNCHANGED <<mem, runVars>>

NoMem ==
    [heap |-> [r \in Resources |-> "never"], ptr |-> [r \in Resources |-> "null"], ub |-> {},
     acquired |-> <<>>, released |-> <<>>]

\* What a successful micarray_init without noise reduction leaves.
ReadyMem ==
    [heap |-> [r \in Resources |->
                  IF r = R("noise_ctx") THEN "never"
                  ELSE IF r = R("mic_positions") THEN "freed" ELSE "live"],
     ptr |-> [r \in Resources |-> IF r = R("noise_ctx") THEN "null" ELSE "set"],
     ub |-> {},
     acquired |-> <<R("ctx"), R("data_mutex"), R("log_ctx"), R("mic_buffers")>>
                  \o [i \in Mics |-> <<"mic_buffer", i>>]
                  \o <<R("processed_buffer"), R("i2s_ctx"), R("mic_positions"), R("loc_ctx"),
                       R("loc_arrays"), R("correlation_buffers")>>
                  \o [i \in Mics |-> <<"correlation_buffer", i>>]
                  \o <<R("audio_ctx")>>,
     released |-> <<R("mic_positions")>>]

InitReady ==
    /\ life_pc = "ready"
    /\ life_ret = MICARRAY_SUCCESS
    /\ mem = ReadyMem

(***************************************************************************)
(* The volume. A float is [nan, v]: NaN, or the number v / 10; the numbers *)
(* -1000 and 1000 stand for -inf and +inf, which compare as the least and  *)
(* the greatest float.                                                     *)
(***************************************************************************)
NaN == [nan |-> TRUE, v |-> 0]
F(tenths) == [nan |-> FALSE, v |-> tenths]
Zero == F(0)
One == F(10)
Floats == {NaN} \cup {F(t) : t \in {-1000, -2, 0, 5, 10, 15, 1000}}

\* C99 fminf and fmaxf: when one argument is NaN the other is returned.
fminf(a, b) == IF a.nan THEN b ELSE IF b.nan THEN a ELSE IF a.v < b.v THEN a ELSE b
fmaxf(a, b) == IF a.nan THEN b ELSE IF b.nan THEN a ELSE IF a.v > b.v THEN a ELSE b

\* config.c:205-208: a comparison with NaN is false.
config_validate(vol) ==
    IF (~vol.nan /\ vol.v < Zero.v) \/ (~vol.nan /\ vol.v > One.v)
    THEN MICARRAY_ERROR_CONFIG
    ELSE MICARRAY_SUCCESS

\* audio_output_set_volume storing its argument as it came.
SetVolumeUnclamped(vol) == vol

\* audio_output.c:316: the value audio_output_set_volume stores.
audio_output_set_volume(vol) == fmaxf(Zero, fminf(One, vol))

\* libmicarray.c:430-438: ctx->config.volume = volume, unclamped and with no
\* lock, then the call of audio_output_set_volume (ctx->audio_ctx is set on
\* every context micarray_init returned).
MicarraySetVolume ==
    /\ sv_pc = "idle"
    /\ \E vol \in Floats :
        /\ cfg_volume' = vol
        /\ sv_arg' = vol
    /\ sv_op' = "micarray_set_volume"
    /\ sv_pc' = "lock"
    /\ UNCHANGED <<volume, audio_mutex, sv_done, ws_pc, ws_gain>>
    /\ UNCHANGED <<i2sVars, rtVars, drvVars, ptVars, clVars, env, lifeVars, nrVars,
                   locVars, lkVars, sigVars, histVars, io_error>>

\* audio_output.c:310-313: the direct call.
AudioOutputSetVolume ==
    /\ sv_pc = "idle"
    /\ \E vol \in Floats : sv_arg' = vol
    /\ sv_op' = "audio_output_set_volume"
    /\ sv_pc' = "lock"
    /\ UNCHANGED <<volume, cfg_volume, audio_mutex, sv_done, ws_pc, ws_gain>>
    /\ UNCHANGED <<i2sVars, rtVars, drvVars, ptVars, clVars, env, lifeVars, nrVars,
                   locVars, lkVars, sigVars, histVars, io_error>>

\* audio_output.c:315.
SetVolumeLock ==
    /\ sv_pc = "lock"
    /\ audio_mutex = "free"
    /\ audio_mutex' = "set_volume"
    /\ sv_pc' = "store"
    /\ UNCHANGED <<volume, cfg_volume, sv_op, sv_arg, sv_done, ws_pc, ws_gain>>
    /\ UNCHANGED <<i2sVars, rtVars, drvVars, ptVars, clVars, env, lifeVars, nrVars,
                   locVars, lkVars, sigVars, histVars, io_error>>

\* audio_output.c:316.
SetVolumeStore ==
    /\ sv_pc = "store"
    /\ volume' = audio_output_set_volume(sv_arg)
    /\ sv_done' = TRUE
    /\ sv_pc' = "unlock"
    /\ UNCHANGED <<cfg_volume, audio_mutex, sv_op, sv_arg, ws_pc, ws_gain>>
    /\ UNCHANGED <<i2sVars, rtVars, drvVars, ptVars, clVars, env, lifeVars, nrVars,
                   locVars, lkVars, sigVars, histVars, io_error>>

\* audio_output.c:317-319.
SetVolumeUnlock ==
    /\ sv_pc = "unlock"
    /\ audio_mutex' = "free"
    /\ sv_pc' = "idle"
    /\ sv_op' = "none"
    /\ sv_arg' = Zero
    /\ UNCHANGED <<volume, cfg_volume, sv_done, ws_pc, ws_gain>>
    /\ UNCHANGED <<i2sVars, rtVars, drvVars, ptVars, clVars, env, lifeVars, nrVars,
                   locVars, lkVars, sigVars, histVars, io_error>>

\* audio_output.c:257-261: a write on a started sink takes the mutex.
WriteStereoLock ==
    /\ ws_pc = "idle"
    /\ audio_running
    /\ audio_mutex = "free"
    /\ audio_mutex' = "write_stereo"
    /\ ws_pc' = "scale"
    /\ UNCHANGED <<volume, cfg_volume, sv_pc, sv_op, sv_arg, sv_done, ws_gain>>
    /\ UNCHANGED <<i2sVars, rtVars, drvVars, ptVars, clVars, env, lifeVars, nrVars,
                   locVars, lkVars, sigVars, histVars, io_error>>

\* audio_output.c:263-268: every sample is multiplied by ctx->config.volume,
\* then the block is handed to the sink.
WriteStereoScale ==
    /\ ws_pc = "scale"
    /\ ws_gain' = volume
    /\ ws_pc' = "unlock"
    /\ UNCHANGED <<volume, cfg_volume, audio_mutex, sv_pc, sv_op, sv_arg, sv_done>>
    /\ UNCHANGED <<i2sVars, rtVars, drvVars, ptVars, clVars, env, lifeVars, nrVars,
                   locVars, lkVars, sigVars, histVars, io_error>>

\* audio_output.c:270.
WriteStereoUnlock ==
    /\ ws_pc = "unlock"
    /\ audio_mutex' = "free"
    /\ ws_pc' = "idle"
    /\ UNCHANGED <<volume, cfg_volume, sv_pc, sv_op, sv_arg, sv_done, ws_gain>>
    /\ UNCHANGED <<i2sVars, rtVars, drvVars, ptVars, clVars, env, lifeVars, nrVars,
                   locVars, lkVars, sigVars, histVars, io_error>>

\* config.c:172: the default volume 0.8 is not among the modelled floats; the
\* sink of a specification that never touches the volume keeps 1.0.
InitSink(vol) ==
    /\ volume = vol
    /\ cfg_volume = vol
    /\ audio_mutex = "free"
    /\ sv_pc = "idle"
    /\ sv_op = "none"
    /\ sv_arg = Zero
    /\ sv_done = FALSE
    /\ ws_pc = "idle"
    /\ ws_gain = vol

(***************************************************************************)
(* The denoiser: noise_reduction_init, the while loop of                   *)
(* noise_reduction_process one iteration at a time, noise_reduction_cleanup.*)
(* The samples' values play no part in which output positions are written. *)
(***************************************************************************)
MaxSamples == 5
FrameSizes == {-4, 2, 3, 4}
Overlaps == {-1, 0, 1, 2, 3, 4, 5}
NoFrame == [frame_size |-> 0, overlap |-> 0]

\* malloc/calloc of `count` elements: a negative int count converts to a size_t
\* no allocator can serve (noise_reduction.c:81-91); any other may fail or not.
Allocates(count, available) == count >= 0 /\ available

\* noise_reduction.c:72-121: the result, and whether *ctx is left set.
noise_reduction_init(frame_size, overlap, available, planned) ==
    IF ~(/\ Allocates(frame_size, available)
         /\ Allocates(overlap, available)
         /\ Allocates((frame_size \div 2) + 1, available))
    THEN [ret |-> MICARRAY_ERROR_MEMORY, ctx |-> FALSE]
    ELSE IF ~planned THEN [ret |-> MICARRAY_ERROR_INIT, ctx |-> FALSE]
    ELSE [ret |-> MICARRAY_SUCCESS, ctx |-> TRUE]

NoiseReductionInit ==
    /\ nr_pc = "none"
    /\ \E frame_size \in FrameSizes, overlap \in Overlaps, available \in BOOLEAN,
          planned \in BOOLEAN :
        LET r == noise_reduction_init(frame_size, overlap, available, planned)
        IN /\ nr_ret' = r.ret
           /\ nr_pc' = IF r.ctx THEN "ready" ELSE "none"
           /\ nr_config' = IF r.ctx THEN [frame_size |-> frame_size, overlap |-> overlap]
                           ELSE NoFrame
    /\ buffer_pos' = 0
    /\ nr_samples' = 0
    /\ processed' = 0
    /\ nr_written' = {}
    /\ input_src' = <<>>
    /\ overlap_src' = {}
    /\ out_src' = {}
    /\ noise_spectrum' = <<>>
    /\ noise_profile_ready' = FALSE
    /\ UNCHANGED <<dn_lane, nr_channel>>
    /\ UNCHANGED <<i2sVars, rtVars, drvVars, ptVars, clVars, env, lifeVars, volVars,
                   locVars, lkVars, lane_chunk, blkVars, panVars, histVars, io_error>>

\* noise_reduction.c:124-130.
NoiseProcessCall ==
    /\ nr_pc = "ready"
    /\ \E samples \in 0..MaxSamples : nr_samples' = samples
    /\ processed' = 0
    /\ nr_written' = {}
    /\ nr_pc' = "loop"
    /\ out_src' = {}
    /\ UNCHANGED <<nr_config, buffer_pos, nr_ret, dn_lane, nr_channel, input_src, overlap_src>>
    /\ UNCHANGED <<i2sVars, rtVars, drvVars, ptVars, clVars, env, lifeVars, volVars,
                   locVars, lkVars, lane_chunk, blkVars, panVars, profVars, histVars,
                   io_error>>

hop_size == nr_config.frame_size - nr_config.overlap

\* The lanes in a sequence of slots.
Lanes(slots) == {slots[i] : i \in DOMAIN slots}

\* noise_reduction.c:132-177: one iteration of the while loop. A frame is
\* processed only when the accumulator is full; with a negative hop the memcpy
\* and memmove of lines 171-175 address memory outside their buffers.
\* Lines 135-137 append the call's samples to the accumulator. Every sample
\* of a processed frame is computed from the whole accumulator (lines 143-155:
\* window, FFT, spectral subtraction, inverse FFT) and from the overlap tail
\* (lines 159-161); the tail kept for the next frame (line 171) is computed
\* from the same; lines 174-175 keep the slots from hop_size on.
NoiseProcessIter ==
    /\ nr_pc = "loop"
    /\ processed < nr_samples
    /\ LET to_copy == Min(nr_samples - processed, nr_config.frame_size - buffer_pos)
           pos == buffer_pos + to_copy
           done == processed + to_copy
           output_samples == Min(hop_size, nr_samples - (done - to_copy))
           filled == input_src \o [i \in 1..to_copy |-> nr_channel]
           defined == hop_size >= 0 /\ Len(filled) = nr_config.frame_size
           frame_src == Lanes(filled) \cup (IF nr_config.overlap > 0 THEN overlap_src ELSE {})
       IN /\ processed' = done
          /\ IF pos >= nr_config.frame_size
             THEN /\ nr_written' = nr_written \cup
                        {(done - to_copy) + i : i \in 0..(output_samples - 1)}
                  /\ buffer_pos' = pos - hop_size
                  /\ nr_pc' = IF hop_size < 0 THEN "undefined" ELSE "loop"
                  /\ out_src' = IF defined /\ output_samples > 0 THEN out_src \cup frame_src
                                ELSE out_src
                  /\ overlap_src' = IF defined /\ nr_config.overlap > 0 THEN frame_src
                                    ELSE overlap_src
                  /\ input_src' = IF defined
                                  THEN SubSeq(filled, hop_size + 1, nr_config.frame_size)
                                  ELSE input_src
             ELSE /\ nr_written' = nr_written
                  /\ buffer_pos' = pos
                  /\ nr_pc' = "loop"
                  /\ input_src' = filled
                  /\ UNCHANGED <<overlap_src, out_src>>
    /\ UNCHANGED <<nr_config, nr_samples, nr_ret, dn_lane, nr_channel>>
    /\ UNCHANGED <<i2sVars, rtVars, drvVars, ptVars, clVars, env, lifeVars, volVars,
                   locVars, lkVars, lane_chunk, blkVars, panVars, profVars, histVars,
                   io_error>>

\* noise_reduction.c:132, 180.
NoiseProcessReturn ==
    /\ nr_pc = "loop"
    /\ processed >= nr_samples
    /\ nr_ret' = MICARRAY_SUCCESS
    /\ nr_pc' = "ready"
    /\ UNCHANGED <<nr_config, buffer_pos, nr_samples, processed, nr_written>>
    /\ UNCHANGED <<i2sVars, rtVars, drvVars, ptVars, clVars, env, lifeVars, volVars,
                   locVars, lkVars, sigVars, histVars, io_error>>

\* noise_reduction.c:230-251.
NoiseReductionCleanup ==
    /\ nr_pc = "ready"
    /\ nr_pc' = "none"
    /\ nr_config' = NoFrame
    /\ buffer_pos' = 0
    /\ nr_samples' = 0
    /\ processed' = 0
    /\ nr_written' = {}
    /\ nr_ret' = MICARRAY_SUCCESS
    /\ input_src' = <<>>
    /\ overlap_src' = {}
    /\ out_src' = {}
    /\ noise_spectrum' = <<>>
    /\ noise_profile_ready' = FALSE
    /\ UNCHANGED <<dn_lane, nr_channel>>
    /\ UNCHANGED <<i2sVars, rtVars, drvVars, ptVars, clVars, env, lifeVars, volVars,
                   locVars, lkVars, lane_chunk, blkVars, panVars, histVars, io_error>>

InitNoNoise ==
    /\ nr_pc = "none"
    /\ nr_config = NoFrame
    /\ buffer_pos = 0
    /\ nr_samples = 0
    /\ processed = 0
    /\ nr_written = {}
    /\ nr_ret = MICARRAY_SUCCESS

(***************************************************************************)
(* The localizer. A float in [-1, 1] is kept in hundredths, rounded toward *)
(* zero; samples are small integers (the division by 32768 of              *)
(* localization.c:31-32 cancels in the quotient of line 41).               *)
(***************************************************************************)
Abs(n) == IF n < 0 THEN -n ELSE n
TruncDiv(a, b) == IF a >= 0 THEN a \div b ELSE -((-a) \div b)
ISqrt(n) == CHOOSE r \in 0..100 : r * r <= n /\ n < (r + 1) * (r + 1)

RECURSIVE SumOver(_, _)
SumOver(f, S) ==
    IF S = {} THEN 0 ELSE LET i == CHOOSE j \in S : TRUE IN f[i] + SumOver(f, S \ {i})

\* localization.c:22-42. The index test of line 30 holds for every i of the loop.
cross_correlate(sig1, sig2, len, delay) ==
    LET I == 0..(len - Abs(delay) - 1)
        idx1(i) == IF delay >= 0 THEN i ELSE i - delay
        idx2(i) == IF delay >= 0 THEN i + delay ELSE i
        correlation == SumOver([i \in I |-> sig1[idx1(i) + 1] * sig2[idx2(i) + 1]], I)
        norm1 == SumOver([i \in I |-> sig1[idx1(i) + 1] * sig1[idx1(i) + 1]], I)
        norm2 == SumOver([i \in I |-> sig2[idx2(i) + 1] * sig2[idx2(i) + 1]], I)
        quotient == ISqrt((correlation * correlation * 10000) \div (norm1 * norm2))
    IN IF norm1 * norm2 > 0
       THEN (IF correlation < 0 THEN -quotient ELSE quotient)
       ELSE 0

\* localization.c:222-229: the greatest correlation over the candidate delays,
\* starting from -1.0.
RECURSIVE MaxCorrelation(_, _, _, _, _, _)
MaxCorrelation(ref, sig, len, delay, max_delay, max_correlation) ==
    IF delay > max_delay THEN max_correlation
    ELSE LET correlation == cross_correlate(ref, sig, len, delay)
         IN MaxCorrelation(ref, sig, len, delay + 1, max_delay,
                           IF correlation > max_correlation THEN correlation
                           ELSE max_correlation)

\* A coordinate is an integer, or NotANumber: the float NaN, which
\* microphone positions computed from a mic_spacing of "nan" or "inf" hold
\* (config.c:22: strtof; config.c:189: NaN <= 0.0f is false;
\* libmicarray.c:257-260). Arithmetic on NaN gives NaN and every comparison
\* with NaN is false.
NotANumber == -999999
IsNaN(a) == a = NotANumber
Sub(a, b) == IF IsNaN(a) \/ IsNaN(b) THEN NotANumber ELSE a - b
Mul(a, b) == IF IsNaN(a) \/ IsNaN(b) THEN NotANumber ELSE a * b
Greater(a, b) == ~IsNaN(a) /\ ~IsNaN(b) /\ a > b
fabsf(a) == IF IsNaN(a) THEN NotANumber ELSE Abs(a)

\* localization.c:64-78: the rows 2 * (mic_i - mic_0), i = 1..3, of the system.
\* The right-hand side takes no part in the pivot tests and is left out.
Equations(m, pos) ==
    [k \in 1..Min(m - 1, 3) |-> [c \in 1..3 |-> Mul(2, Sub(pos[k][c], pos[0][c]))]]

\* localization.c:89-94: the row of the greatest pivot candidate, from row j on.
RECURSIVE MaxRow(_, _, _, _)
MaxRow(A, i, j, max_row) ==
    IF j > 3 THEN max_row
    ELSE MaxRow(A, i, j + 1,
                IF Greater(fabsf(A[j][i]), fabsf(A[max_row][i])) THEN j ELSE max_row)

\* The elimination that never finds a pivot zero.
EliminateNoPivotTest(A, i) == FALSE

\* localization.c:88-118: partial pivoting, the pivot test, and the elimination
\* with rows scaled by the pivot instead of divided by it (a zero pivot is met
\* in the same step either way, and so is NaN). TRUE when a pivot is zero.
RECURSIVE Eliminate(_, _)
Eliminate(A, i) ==
    IF i > 3 THEN FALSE
    ELSE LET max_row == MaxRow(A, i, i + 1, i)
             S == [A EXCEPT ![i] = A[max_row], ![max_row] = A[i]]
         IN IF ~IsNaN(S[i][i]) /\ S[i][i] = 0 THEN TRUE
            ELSE Eliminate([j \in 1..3 |->
                               IF j > i
                               THEN [k \in 1..3 |->
                                       IF k >= i
                                       THEN Sub(Mul(S[i][i], S[j][k]), Mul(S[j][i], S[i][k]))
                                       ELSE S[j][k]]
                               ELSE S[j]], i + 1)

Origin(confidence) == [origin |-> TRUE, confidence |-> confidence]

\* localization.c:60-138: the location written.
trilaterate_3d(ctx, avg_confidence) ==
    LET A == Equations(ctx.num_microphones, ctx.mic_positions)
    IN IF Len(A) < 3 THEN [path |-> "few_equations", location |-> Origin(0)]
       ELSE IF Eliminate(A, 1) THEN [path |-> "zero_pivot", location |-> Origin(0)]
       ELSE [path |-> "solved",
             location |-> [origin |-> FALSE, confidence |-> avg_confidence]]

\* localization.c:197-254.
localization_process(ctx, mic_data, samples) ==
    IF samples < ctx.correlation_window_size
    THEN [ret |-> MICARRAY_SUCCESS, path |-> "short", avg_confidence |-> 0,
          location |-> Origin(0)]
    ELSE LET confidence_values ==
                 [i \in 0..(ctx.num_microphones - 1) |->
                     IF i = 0 THEN 100
                     ELSE MaxCorrelation(mic_data[0], mic_data[i], samples,
                                         -ctx.max_delay, ctx.max_delay, -100)]
             avg_confidence ==
                 TruncDiv(SumOver(confidence_values, DOMAIN confidence_values),
                          ctx.num_microphones)
         IN IF avg_confidence < ctx.min_confidence_threshold
            THEN [ret |-> MICARRAY_SUCCESS, path |-> "weak",
                  avg_confidence |-> avg_confidence, location |-> Origin(avg_confidence)]
            ELSE LET t == trilaterate_3d(ctx, avg_confidence)
                 IN [ret |-> MICARRAY_SUCCESS, path |-> t.path,
                     avg_confidence |-> avg_confidence, location |-> t.location]

\* Microphone layouts: a tetrahedron, a line, a square in the plane z = 0, a
\* rectangle in the plane z = 2, and the ring of libmicarray.c:257-261 for a
\* mic_spacing that is not a number.
Layouts ==
    { [i \in 0..3 |-> <<IF i = 1 THEN 1 ELSE 0, IF i = 2 THEN 1 ELSE 0, IF i = 3 THEN 1 ELSE 0>>],
      [i \in 0..3 |-> <<i, 0, 0>>],
      [i \in 0..3 |-> <<IF i \in {1, 2} THEN 1 ELSE 0, IF i \in {2, 3} THEN 1 ELSE 0, 0>>],
      [i \in 0..3 |-> <<IF i \in {1, 2} THEN 3 ELSE 0, IF i \in {2, 3} THEN 1 ELSE 0, 2>>],
      [i \in 0..3 |-> <<NotANumber, NotANumber, 0>>] }

\* Contexts localization_init returns (localization.c:140-195).
LocContexts ==
    [num_microphones : {3, 4}, mic_positions : Layouts, correlation_window_size : {2},
     max_delay : {0, 1}, min_confidence_threshold : {0, 50}]

\* A tone, the same tone inverted, silence, and an alternating signal.
Signals(samples) ==
    { [j \in 1..samples |-> 1], [j \in 1..samples |-> -1], [j \in 1..samples |-> 0],
      [j \in 1..samples |-> IF j % 2 = 1 THEN 1 ELSE -1] }

NoCall == [mic_data |-> <<>>, samples |-> 0]
NoResult == [ret |-> MICARRAY_SUCCESS, path |-> "none", avg_confidence |-> 0,
             location |-> Origin(0)]

\* A call on the context with any lanes (localization.c:197-254).
LocalizationProcess ==
    /\ loc_res = NoResult
    /\ \E samples \in {1, 2} :
        \E mic_data \in [0..(loc_ctx.num_microphones - 1) -> Signals(samples)] :
            /\ loc_call' = [mic_data |-> mic_data, samples |-> samples]
            /\ loc_res' = localization_process(loc_ctx, mic_data, samples)
    /\ UNCHANGED loc_ctx
    /\ UNCHANGED <<i2sVars, rtVars, drvVars, ptVars, clVars, env, lifeVars, volVars,
                   nrVars, lkVars, sigVars, histVars, io_error>>

\* The caller takes the location and comes back with the next frame
\* (libmicarray.c:82-88).
LocalizationTaken ==
    /\ loc_res # NoResult
    /\ loc_call' = NoCall
    /\ loc_res' = NoResult
    /\ UNCHANGED loc_ctx
    /\ UNCHANGED <<i2sVars, rtVars, drvVars, ptVars, clVars, env, lifeVars, volVars,
                   nrVars, lkVars, sigVars, histVars, io_error>>

InitNoLoc ==
    /\ loc_ctx = CHOOSE c \in LocContexts : TRUE
    /\ loc_call = NoCall
    /\ loc_res = NoResult

(***************************************************************************)
(* Calls with NULL pointers. An operation is named with the pointer        *)
(* parameters its body dereferences; `null` is the set of those passed as  *)
(* NULL.                                                                   *)
(***************************************************************************)
PointerParams ==
    [micarray_init |-> {"ctx", "config_file"},
     micarray_start |-> {"ctx"},
     micarray_stop |-> {"ctx"},
     micarray_cleanup |-> {"ctx"},
     micarray_get_location |-> {"ctx", "location"},
     micarray_set_volume |-> {"ctx"},
     noise_reduction_init |-> {"ctx", "config"},
     noise_reduction_set_threshold |-> {"ctx"},
     localization_init |-> {"ctx", "config"},
     localization_set_mic_positions |-> {"ctx", "positions"},
     logging_init |-> {"ctx", "config"},
     logging_set_level |-> {"ctx"}]

\* An entry test that looks at the context pointer only.
InvalidParamCtxOnly(op, null) == "ctx" \in null

\* The test each operation begins with: libmicarray.c:116, 308, 347, 372, 419,
\* 431; noise_reduction.c:68, 222; localization.c:141, 257; logging.c:86, 231.
InvalidParam(op, null) ==
    CASE op = "micarray_init" -> "ctx" \in null \/ "config_file" \in null
      [] op = "micarray_start" -> "ctx" \in null
      [] op = "micarray_stop" -> "ctx" \in null
      [] op = "micarray_cleanup" -> "ctx" \in null
      [] op = "micarray_get_location" -> "ctx" \in null \/ "location" \in null
      [] op = "micarray_set_volume" -> "ctx" \in null
      [] op = "noise_reduction_init" -> "ctx" \in null \/ "config" \in null
      [] op = "noise_reduction_set_threshold" -> "ctx" \in null
      [] op = "localization_init" -> "ctx" \in null \/ "config" \in null
      [] op = "localization_set_mic_positions" -> "ctx" \in null \/ "positions" \in null
      [] op = "logging_init" -> "ctx" \in null \/ "config" \in null
      [] op = "logging_set_level" -> "ctx" \in null

\* A call of one of the operations with at least one NULL pointer. When the
\* entry test fires the call returns at once; otherwise the body dereferences
\* the NULL pointer, which is undefined.
NullCall ==
    /\ cl_pc = "idle"
    /\ \E op \in DOMAIN PointerParams :
        \E null \in (SUBSET PointerParams[op]) \ {{}} :
            /\ cl_op' = op
            /\ cl_req' = Cardinality(null)
            /\ IF InvalidParam(op, null)
               THEN /\ cl_ret' = MICARRAY_ERROR_INVALID_PARAM
                    /\ UNCHANGED mem
               ELSE /\ cl_ret' \in {MICARRAY_SUCCESS, MICARRAY_ERROR_INVALID_PARAM}
                    /\ mem' = [mem EXCEPT !.ub = @ \cup {"null_dereference"}]
    /\ cl_pc' = "done"
    /\ UNCHANGED <<cl_buf, cl_loc, cl_after_err, life_pc, life_ret>>
    /\ UNCHANGED <<i2sVars, rtVars, drvVars, ptVars, env, volVars, nrVars, locVars, lkVars, sigVars,
                   histVars, io_error>>

(***************************************************************************)
(* The mutexes: every pthread_mutex_lock and pthread_mutex_unlock of       *)
(* i2s.c, libmicarray.c, audio_output.c and logging.c, in the order each   *)
(* thread meets them. "ring" is i2s_context.mutex, "data" is               *)
(* micarray_context.data_mutex, "audio" is audio_output_context.mutex,     *)
(* "logging" is logging_context.mutex.                                     *)
(***************************************************************************)
Mutexes == {"ring", "data", "audio", "logging"}
Threads == {"capture", "processing", "caller"}

Lock(m) == [do |-> "lock", mutex |-> m]
Unlock(m) == [do |-> "unlock", mutex |-> m]

\* log_message (logging.c:160-188).
LogMessage == <<Lock("logging"), Unlock("logging")>>

\* The capture thread delivering a chunk with the ring's mutex still held
\* while the callback runs.
LockProgramNested(op) ==
    IF op = "deliver_chunk"
    THEN <<Lock("ring"), Lock("data"), Unlock("data"), Unlock("ring")>>
    ELSE IF op = "micarray_get_location" THEN <<Lock("data"), Lock("ring"), Unlock("ring"), Unlock("data")>>
    ELSE LogMessage

\* The lock steps of each operation.
LockProgram(op) ==
    CASE op = "deliver_chunk" ->
            \* i2s.c:54-62 the push, then 64-66 audio_callback, libmicarray.c:50-61
            <<Lock("ring"), Unlock("ring"), Lock("data"), Unlock("data")>>
      [] op = "process_block" ->
            \* libmicarray.c:71-106: log_location_data inside the data mutex (88),
            \* audio_output_write_stereo after it (audio_output.c:261-270)
            <<Lock("data")>> \o LogMessage \o <<Unlock("data"), Lock("audio"), Unlock("audio")>>
      [] op = "log_info" ->
            \* libmicarray.c:68, 111, 316, 341, 355, 366
            LogMessage
      [] op = "micarray_get_location" ->
            \* libmicarray.c:423-425
            <<Lock("data"), Unlock("data")>>
      [] op = "audio_output_set_volume" ->
            \* audio_output.c:315-317
            <<Lock("audio"), Unlock("audio")>>
      [] op = "i2s_read_samples" ->
            \* i2s.c:200-210, and i2s_get_buffer_level 235-237
            <<Lock("ring"), Unlock("ring")>>
      [] op = "logging_set_level" ->
            \* logging.c:235-239
            <<Lock("logging"), Unlock("logging")>> \o LogMessage

\* What each thread runs.
Operations ==
    [capture |-> {"deliver_chunk"},
     processing |-> {"process_block", "log_info"},
     caller |-> {"log_info", "micarray_get_location", "audio_output_set_volume",
                 "i2s_read_samples", "logging_set_level"}]

NextStep(t) == LockProgram(lk_op[t])[lk_pc[t] + 1]

Held(t) == {m \in Mutexes : lk_holder[m] = t}

\* Thread t is at a pthread_mutex_lock of a mutex that is not free.
Waiting(t) ==
    /\ lk_op[t] # "none"
    /\ lk_pc[t] < Len(LockProgram(lk_op[t]))
    /\ NextStep(t).do = "lock"
    /\ lk_holder[NextStep(t).mutex] # "free"

LockUnchanged ==
    UNCHANGED <<i2sVars, rtVars, drvVars, ptVars, clVars, env, lifeVars, volVars, nrVars,
                locVars, sigVars, histVars, io_error>>

OperationBegin(t) ==
    /\ lk_op[t] = "none"
    /\ \E op \in Operations[t] : lk_op' = [lk_op EXCEPT ![t] = op]
    /\ UNCHANGED <<lk_holder, lk_pc>>
    /\ LockUnchanged

MutexLock(t) ==
    /\ lk_op[t] # "none"
    /\ lk_pc[t] < Len(LockProgram(lk_op[t]))
    /\ NextStep(t).do = "lock"
    /\ lk_holder[NextStep(t).mutex] = "free"
    /\ lk_holder' = [lk_holder EXCEPT ![NextStep(t).mutex] = t]
    /\ lk_pc' = [lk_pc EXCEPT ![t] = @ + 1]
    /\ UNCHANGED lk_op
    /\ LockUnchanged

\* Unlocking a mutex the thread does not hold is undefined; no program does.
MutexUnlock(t) ==
    /\ lk_op[t] # "none"
    /\ lk_pc[t] < Len(LockProgram(lk_op[t]))
    /\ NextStep(t).do = "unlock"
    /\ lk_holder[NextStep(t).mutex] = t
    /\ lk_holder' = [lk_holder EXCEPT ![NextStep(t).mutex] = "free"]
    /\ lk_pc' = [lk_pc EXCEPT ![t] = @ + 1]
    /\ UNCHANGED lk_op
    /\ LockUnchanged

OperationEnd(t) ==
    /\ lk_op[t] # "none"
    /\ lk_pc[t] = Len(LockProgram(lk_op[t]))
    /\ lk_op' = [lk_op EXCEPT ![t] = "none"]
    /\ lk_pc' = [lk_pc EXCEPT ![t] = 0]
    /\ UNCHANGED lk_holder
    /\ LockUnchanged

\* No block of samples in the specifications that do not follow one.
InitNoBlock ==
    /\ num_microphones = 0
    /\ mic_buffers = <<>>
    /\ processed_buffer = <<>>
    /\ cb_data = <<>>
    /\ cb_calls = 0
    /\ cb_oob = FALSE
    /\ blk_pc = "none"

\* noise_reduction.c:76, 81-83: calloc leaves the accumulator and the overlap
\* tail empty.
InitNoSrc ==
    /\ dn_lane = 0
    /\ nr_channel = 0
    /\ input_src = <<>>
    /\ overlap_src = {}
    /\ out_src = {}

\* No call of the spatial mixer yet.
NoPan == [mono_data |-> <<>>, location |-> [x |-> 0, y |-> 0, confidence |-> 0]]
NoStereo == [left |-> <<>>, right |-> <<>>]
InitNoPan ==
    /\ pan_call = NoPan
    /\ pan_out = NoStereo

\* noise_reduction.c:79, 89: calloc leaves every bin zero and the flag false.
InitNoProfile ==
    /\ noise_spectrum = <<>>
    /\ noise_profile_ready = FALSE

InitNoSig ==
    /\ lane_chunk = "none"
    /\ InitNoBlock
    /\ InitNoSrc
    /\ InitNoPan
    /\ InitNoProfile

InitNoLocks ==
    /\ lk_holder = [m \in Mutexes |-> "free"]
    /\ lk_op = [t \in Threads |-> "none"]
    /\ lk_pc = [t \in Threads |-> 0]

(***************************************************************************)
(* SpecRing: the capture ring after i2s_init (i2s.c:80-96: calloc), with   *)
(* no callback registered, in one of two environments: a client that pops, *)
(* with a device stream long enough to fill, overrun and wrap the ring; or *)
(* the overrun scenario, 10 x capacity samples and no i2s_read_samples     *)
(* call (as in the driver, which never pops the ring).                     *)
(***************************************************************************)
InitI2s ==
    /\ i2s_running = FALSE
    /\ ring_buffer = [s \in 0..(Capacity - 1) |-> 0]
    /\ write_pos = 0
    /\ read_pos = 0
    /\ available_samples = 0
    /\ i2s_mutex = "free"
    /\ rt_pc = "none"
    /\ temp_buffer = <<>>
    /\ offered = 0
    /\ dropped = 0
    /\ accepted = <<>>
    /\ returned = <<>>
    /\ io_error = FALSE

InitClient ==
    /\ cl_pc = "idle"
    /\ cl_op = "none"
    /\ cl_ret = MICARRAY_SUCCESS
    /\ cl_req = 0
    /\ cl_buf = <<>>
    /\ cl_loc = NoLocation
    /\ cl_after_err = FALSE

\* libmicarray.c:120 (calloc), 300.
InitDriver ==
    /\ running = FALSE
    /\ data_mutex = "free"
    /\ current_location = NoLocation
    /\ audio_running = FALSE
    /\ pt_pc = "none"
    /\ pt_loc = 0
    /\ pt_write = NoWrite

RingEnv == [limit |-> RingStream, consumer |-> TRUE, counted |-> TRUE, noise |-> FALSE, whole |-> FALSE, lanes |-> 0]
OverrunEnv == [limit |-> OverrunStream, consumer |-> FALSE, counted |-> TRUE, noise |-> FALSE, whole |-> FALSE, lanes |-> 0]

InitRing ==
    /\ InitI2s
    /\ InitClient
    /\ InitDriver
    /\ InitSink(One)
    /\ InitNoNoise
    /\ InitNoLoc
    /\ InitNoLocks
    /\ InitNoSig
    /\ InitReady
    /\ callback = "none"
    /\ env \in {RingEnv, OverrunEnv}

NextRing ==
    \/ ReadThreadEntry
    \/ ReadThreadLoop
    \/ ReadThreadRead
    \/ ReadThreadAgain
    \/ ReadThreadError
    \/ ReadThreadLock
    \/ ReadThreadPush
    \/ ReadThreadUnlock
    \/ ClientReturn
    \/ I2sStartRunning
    \/ I2sStart
    \/ I2sStopNotRunning
    \/ I2sStop
    \/ I2sStopJoin
    \/ I2sReadLock
    \/ I2sReadPop
    \/ I2sReadUnlock
    \/ I2sLevelLock
    \/ I2sLevelUnlock

SpecRing == InitRing /\ [][NextRing]_vars

(***************************************************************************)
(* Claims about the capture ring, checked under SpecRing.                  *)
(***************************************************************************)
popped == Len(returned)

\* The read thread's push loop has just run on the chunk in temp_buffer.
PushStep == rt_pc = "push" /\ rt_pc' = "unlock"

\* The client's pop loop has just run.
PopStep == cl_pc = "pop" /\ cl_pc' = "pop_unlock"

\* C1: in every state reached by any interleaving of the read thread's pushes
\* with the client's i2s_read_samples, i2s_get_buffer_level, i2s_start and
\* i2s_stop calls, 0 <= available_samples <= capacity = 4 x buffer_size.
C1_AvailableWithinCapacity ==
    /\ Capacity = 4 * BufferSize
    /\ available_samples \in 0..Capacity

\* C1's case: the ring is full again after an overrun and a pop.
C1_Witness ==
    /\ available_samples = Capacity
    /\ dropped > 0
    /\ popped > 0

\* C2: since i2s_start, offered - popped = available + dropped; and once
\* 10 x capacity samples were offered with no pop, available = capacity and
\* dropped = 9 x capacity.
C2_SampleBalance ==
    /\ offered - popped = available_samples + dropped
    /\ (offered = 10 * Capacity /\ popped = 0) =>
          (available_samples = Capacity /\ dropped = 9 * Capacity)

\* C2's case: the overrun scenario has run to its end.
C2_Witness ==
    /\ offered = 10 * Capacity
    /\ popped = 0
    /\ dropped = 9 * Capacity
    /\ rt_pc = "unlock"

\* C3: a push of a chunk of n samples stores its first min(n, capacity -
\* available) samples, in order, from write_pos on, counts the rest as lost,
\* leaves every sample not yet popped in place and does not move read_pos.
C3_PushStoresLeadingSamples ==
    [][PushStep =>
        LET n == Len(temp_buffer)
            k == Min(n, Capacity - available_samples)
        IN /\ available_samples' = available_samples + k
           /\ write_pos' = (write_pos + k) % Capacity
           /\ read_pos' = read_pos
           /\ \A j \in 0..(k - 1) :
                 ring_buffer'[(write_pos + j) % Capacity] = temp_buffer[j + 1]
           /\ \A j \in 0..(available_samples - 1) :
                 ring_buffer'[(read_pos + j) % Capacity] =
                     ring_buffer[(read_pos + j) % Capacity]
           /\ accepted' = accepted \o SubSeq(temp_buffer, 1, k)
           /\ dropped' = dropped + (n - k)]_vars

\* C3's case: a chunk of two samples met one free slot: the first sample was
\* stored behind samples still waiting, the second was lost.
C3_Witness ==
    /\ rt_pc = "unlock"
    /\ Len(temp_buffer) = 2
    /\ available_samples = Capacity
    /\ ring_buffer[(write_pos + Capacity - 1) % Capacity] = temp_buffer[1]
    /\ accepted # <<>>
    /\ accepted[Len(accepted)] = temp_buffer[1]

\* C4: i2s_read_samples(n) returns exactly min(n, available) samples, and the
\* samples returned so far, in order, are a prefix of the samples accepted so
\* far, in order.
C4_PopIsFifo ==
    [][PopStep =>
        /\ cl_ret' = Min(cl_req', available_samples)
        /\ Len(cl_buf') = cl_ret'
        /\ available_samples' = available_samples - cl_ret'
        /\ returned' = returned \o cl_buf'
        /\ IsPrefix(returned', accepted')]_vars

\* C4's case: a pop of several samples that crossed the end of the ring, after
\* an overrun, with a chunk of the read thread waiting for the mutex.
C4_Witness ==
    /\ cl_pc = "pop_unlock"
    /\ cl_ret >= 2
    /\ read_pos < cl_ret
    /\ popped > Capacity
    /\ dropped > 0
    /\ rt_pc = "lock"


(***************************************************************************)
(* The pipeline (libmicarray.c): processing_thread_func, micarray_start,   *)
(* micarray_stop and micarray_get_location.                                *)
(***************************************************************************)
\* libmicarray.c:37-41: the flag is set only by a static handler that is never
\* installed, so it keeps its initial value.
g_shutdown_requested == FALSE

\* sound_location_t: the fields in the order a structure copy visits them.
Fields == <<"x", "y", "z", "confidence">>

\* The value one localization_process call writes: every path of it
\* (localization.c:202-208, 243-249, 80-86, 104-110, 128-137) assigns all four
\* fields. The calls' results are told apart by a tag.
Located(t) == [x |-> t, y |-> t, z |-> t, confidence |-> t]

\* libmicarray.c:70, 110-112: the loop test; the thread returns when it fails.
ProcCheck ==
    /\ pt_pc = "check"
    /\ pt_pc' = IF running /\ ~g_shutdown_requested THEN "lock" ELSE "exited"
    /\ UNCHANGED <<i2sVars, rtVars, drvVars, pt_loc, pt_write, clVars, envVars, histVars,
                   io_error>>

\* libmicarray.c:71: pthread_mutex_lock(&ctx->data_mutex).
ProcLock ==
    /\ pt_pc = "lock"
    /\ data_mutex = "free"
    /\ data_mutex' = "proc"
    /\ pt_pc' = "locate"
    /\ UNCHANGED <<i2sVars, rtVars, running, current_location, audio_running, pt_loc, pt_write,
                   clVars, envVars, histVars, io_error>>

\* libmicarray.c:73-86: noise reduction in place on the lanes, then
\* localization_process computes its result from the lanes. Whatever the lanes
\* hold has been processed from here on.
ProcLocate ==
    /\ pt_pc = "locate"
    /\ \E t \in Locations : pt_loc' = t
    /\ pt_pc' = "w1"
    /\ lane_chunk' = IF env.lanes > 0 /\ lane_chunk = "fresh" THEN "processed" ELSE lane_chunk
    /\ UNCHANGED <<i2sVars, rtVars, drvVars, pt_write, clVars, restVars, histVars, io_error>>

WritePc == <<"w1", "w2", "w3", "w4">>

\* localization_process assigns location->x, ->y, ->z, ->confidence one by one,
\* straight into ctx->current_location (libmicarray.c:86).
ProcWriteField ==
    \E i \in 1..4 :
        /\ pt_pc = WritePc[i]
        /\ current_location' = [current_location EXCEPT ![Fields[i]] = pt_loc]
        /\ pt_pc' = IF i < 4 THEN WritePc[i + 1] ELSE "unlock"
        /\ pt_loc' = IF i < 4 THEN pt_loc ELSE 0
        /\ UNCHANGED <<i2sVars, rtVars, running, data_mutex, audio_running, pt_write, clVars,
                       envVars, histVars, io_error>>

\* libmicarray.c:88-99: log, downmix into processed_buffer, unlock.
ProcUnlock ==
    /\ pt_pc = "unlock"
    /\ data_mutex' = "free"
    /\ pt_pc' = "write"
    /\ UNCHANGED <<i2sVars, rtVars, running, current_location, audio_running, pt_loc, pt_write,
                   clVars, envVars, histVars, io_error>>

\* audio_output_write_stereo reporting a broken pipe to its caller.
WriteStereoPropagates(is_running, frames_written) ==
    [frames_written |-> frames_written,
     result |-> IF is_running /\ frames_written = "frames" THEN MICARRAY_SUCCESS
                ELSE MICARRAY_ERROR_AUDIO_OUTPUT,
     prepared |-> FALSE]

\* audio_output.c:257-283: refused when the output is not running; otherwise
\* snd_pcm_writei returns a frame count, -EPIPE or another error. After -EPIPE
\* the sink is prepared again and the write reports success.
audio_output_write_stereo(is_running, frames_written) ==
    IF ~is_running
    THEN [frames_written |-> "none", result |-> MICARRAY_ERROR_AUDIO_OUTPUT,
          prepared |-> FALSE]
    ELSE IF frames_written = "EPIPE"
    THEN [frames_written |-> "EPIPE", result |-> MICARRAY_SUCCESS, prepared |-> TRUE]
    ELSE IF frames_written = "error"
    THEN [frames_written |-> "error", result |-> MICARRAY_ERROR_AUDIO_OUTPUT,
          prepared |-> FALSE]
    ELSE [frames_written |-> "frames", result |-> MICARRAY_SUCCESS, prepared |-> FALSE]

\* audio_output.c:286-308: the two channel buffers are allocated, or the call
\* fails before it writes; then the panned channels go to
\* audio_output_write_stereo, whose result is returned.
audio_output_write_localized(allocated, is_running, frames_written) ==
    IF ~allocated
    THEN [frames_written |-> "none", result |-> MICARRAY_ERROR_MEMORY, prepared |-> FALSE]
    ELSE audio_output_write_stereo(is_running, frames_written)

\* libmicarray.c:101-106: audio_output_write_localized. A write error that is
\* not a broken pipe is a persistent device error.
ProcWrite ==
    /\ pt_pc = "write"
    /\ \E allocated \in BOOLEAN, frames_written \in {"frames", "EPIPE", "error"} :
          /\ pt_write' = audio_output_write_localized(allocated, audio_running,
                                                      frames_written)
          /\ io_error' = (io_error \/ pt_write'.frames_written = "error")
    /\ pt_pc' = "wrote"
    /\ UNCHANGED <<i2sVars, rtVars, drvVars, pt_loc, clVars, envVars, histVars>>

\* libmicarray.c:101-108: the result of the write is dropped; usleep(1000) and
\* the next turn of the loop.
ProcSleep ==
    /\ pt_pc = "wrote"
    /\ pt_write' = NoWrite
    /\ pt_pc' = "check"
    /\ UNCHANGED <<i2sVars, rtVars, drvVars, pt_loc, clVars, envVars, histVars, io_error>>

\* libmicarray.c:312-314: micarray_start on a running context.
MicarrayStartRunning ==
    /\ Call("start_noop")
    /\ running
    /\ Return(MICARRAY_SUCCESS)
    /\ UNCHANGED <<cl_req, cl_buf, cl_loc, i2sVars, rtVars, drvVars, ptVars, envVars, histVars,
                   io_error>>

\* libmicarray.c:318-322: micarray_start calls i2s_start (i2s.c:136-156).
MicarrayStart ==
    /\ Call("start")
    /\ ~running
    /\ IF i2s_running
       THEN /\ cl_pc' = "start_audio"
            /\ UNCHANGED <<cl_ret, i2sVars, rtVars, histVars, io_error>>
       ELSE \E created \in BOOLEAN :
               /\ I2sStartFresh(created)
               /\ IF created
                  THEN cl_pc' = "start_audio" /\ UNCHANGED cl_ret
                  ELSE Return(MICARRAY_ERROR_INIT)
    /\ UNCHANGED <<cl_req, cl_buf, cl_loc, drvVars, ptVars, envVars>>

\* libmicarray.c:324-331: audio_output_start (audio_output.c:186-203); when it
\* fails, i2s_stop clears the capture flag and joins (i2s.c:167-169); when it
\* succeeds, ctx->running = true.
MicarrayStartAudio ==
    /\ cl_pc = "start_audio"
    /\ \E prepared \in BOOLEAN :
          IF audio_running \/ prepared
          THEN /\ audio_running' = TRUE
               /\ running' = TRUE
               /\ cl_pc' = "start_create"
               /\ UNCHANGED <<cl_ret, i2s_running>>
          ELSE /\ i2s_running' = FALSE
               /\ cl_ret' = MICARRAY_ERROR_AUDIO_OUTPUT
               /\ cl_pc' = "start_undo"
               /\ UNCHANGED <<audio_running, running>>
    /\ UNCHANGED <<cl_op, cl_req, cl_buf, cl_loc, cl_after_err, ring_buffer, write_pos,
                   read_pos, available_samples, i2s_mutex, callback, rtVars, data_mutex,
                   current_location, ptVars, envVars, histVars, io_error>>

\* libmicarray.c:333-343: pthread_create of the processing thread; when it fails
\* the flags are cleared again and i2s_stop joins the read thread.
MicarrayStartCreate ==
    /\ cl_pc = "start_create"
    /\ \E created \in BOOLEAN :
          IF created
          THEN /\ pt_pc' = "check"
               /\ Return(MICARRAY_SUCCESS)
               /\ UNCHANGED <<running, audio_running, i2s_running>>
          ELSE /\ running' = FALSE
               /\ audio_running' = FALSE
               /\ i2s_running' = FALSE
               /\ cl_ret' = MICARRAY_ERROR_INIT
               /\ cl_pc' = "start_undo"
               /\ UNCHANGED pt_pc
    /\ UNCHANGED <<cl_op, cl_req, cl_buf, cl_loc, cl_after_err, ring_buffer, write_pos,
                   read_pos, available_samples, i2s_mutex, callback, rtVars, data_mutex,
                   current_location, pt_loc, pt_write, envVars, histVars, io_error>>

\* i2s.c:169-174 inside micarray_start's failure paths: the join returns once
\* the read thread has returned; micarray_start then returns its error.
MicarrayStartUndo ==
    /\ cl_pc = "start_undo"
    /\ rt_pc = "exited"
    /\ rt_pc' = "none"
    /\ cl_pc' = "done"
    /\ UNCHANGED <<cl_op, cl_ret, cl_req, cl_buf, cl_loc, cl_after_err, i2sVars,
                   temp_buffer, drvVars, ptVars, envVars, histVars, io_error>>

\* micarray_stop without its test of ctx->running.
MicarrayStopUnconditional ==
    /\ Call("stop")
    /\ running' = FALSE
    /\ cl_pc' = "stop_join"
    /\ UNCHANGED <<cl_ret, cl_req, cl_buf, cl_loc, i2sVars, rtVars, data_mutex,
                   current_location, audio_running, ptVars, envVars, histVars, io_error>>

\* micarray_stop going to the join without clearing ctx->running.
MicarrayStopJoinFirst ==
    /\ IF running THEN Call("stop") ELSE Call("stop_noop")
    /\ IF running THEN cl_pc' = "stop_join" /\ UNCHANGED cl_ret
                  ELSE Return(MICARRAY_SUCCESS)
    /\ UNCHANGED <<cl_req, cl_buf, cl_loc, i2sVars, rtVars, drvVars, ptVars, envVars,
                   histVars, io_error>>

\* libmicarray.c:351-357: micarray_stop returns at once on a context that is
\* not running; otherwise it clears ctx->running and goes on to the join.
MicarrayStop ==
    /\ IF running THEN Call("stop") ELSE Call("stop_noop")
    /\ IF running
       THEN /\ running' = FALSE
            /\ cl_pc' = "stop_join"
            /\ UNCHANGED cl_ret
       ELSE /\ Return(MICARRAY_SUCCESS)
            /\ UNCHANGED running
    /\ UNCHANGED <<cl_req, cl_buf, cl_loc, i2sVars, rtVars, data_mutex, current_location,
                   audio_running, ptVars, envVars, histVars, io_error>>

\* micarray_stop going on from its join while the processing thread runs.
MicarrayStopNoJoin ==
    /\ cl_pc = "stop_join"
    /\ audio_running' = FALSE
    /\ cl_pc' = "stop_i2s"
    /\ UNCHANGED <<cl_op, cl_ret, cl_req, cl_buf, cl_loc, cl_after_err, i2sVars, rtVars,
                   running, data_mutex, current_location, ptVars, envVars, histVars, io_error>>

\* libmicarray.c:359-363: pthread_join returns once the processing thread has
\* returned; then audio_output_stop (audio_output.c:205-223).
MicarrayStopJoin ==
    /\ cl_pc = "stop_join"
    /\ pt_pc = "exited"
    /\ pt_pc' = "none"
    /\ audio_running' = FALSE
    /\ cl_pc' = "stop_i2s"
    /\ UNCHANGED <<cl_op, cl_ret, cl_req, cl_buf, cl_loc, cl_after_err, i2sVars, rtVars,
                   running, data_mutex, current_location, pt_loc, pt_write, envVars, histVars, io_error>>

\* libmicarray.c:366-368: micarray_stop returns, to the user or, called at
\* line 376, into micarray_cleanup.
StopReturns ==
    /\ cl_pc' = IF cl_op = "cleanup" THEN "cleanup_components" ELSE "done"
    /\ cl_ret' = MICARRAY_SUCCESS

\* libmicarray.c:364, i2s.c:163-167: i2s_stop clears the capture flag, or
\* returns at once when capture is not running.
MicarrayStopI2s ==
    /\ cl_pc = "stop_i2s"
    /\ i2s_running' = FALSE
    /\ IF i2s_running THEN cl_pc' = "stop_i2s_join" /\ UNCHANGED cl_ret
                      ELSE StopReturns
    /\ UNCHANGED <<cl_op, cl_req, cl_buf, cl_loc, cl_after_err, ring_buffer, write_pos,
                   read_pos, available_samples, i2s_mutex, callback, rtVars, drvVars,
                   ptVars, envVars, histVars, io_error>>

\* i2s.c:169-174, libmicarray.c:366-368: the join of the read thread; the
\* result of i2s_stop is dropped and micarray_stop returns success.
MicarrayStopI2sJoin ==
    /\ cl_pc = "stop_i2s_join"
    /\ rt_pc = "exited"
    /\ rt_pc' = "none"
    /\ StopReturns
    /\ UNCHANGED <<cl_op, cl_req, cl_buf, cl_loc, cl_after_err, i2sVars, temp_buffer,
                   drvVars, ptVars, envVars, histVars, io_error>>

(***************************************************************************)
(* micarray_cleanup called by the user's thread on the context of the      *)
(* pipeline (libmicarray.c:371-416). After it the context is gone and the  *)
(* user calls nothing more.                                                *)
(***************************************************************************)
TeardownUnchanged ==
    UNCHANGED <<env, volVars, nrVars, locVars, lkVars, sigVars, histVars, io_error>>

\* libmicarray.c:376 -> 351-357: micarray_stop, called first: on a running
\* context it clears ctx->running and goes on to its join.
MicarrayCleanupStop ==
    /\ life_pc = "ready"
    /\ IF running THEN Call("cleanup") ELSE Call("cleanup_stopped")
    /\ running' = FALSE
    /\ cl_pc' = IF running THEN "stop_join" ELSE "cleanup_components"
    /\ UNCHANGED <<cl_ret, cl_req, cl_buf, cl_loc, i2sVars, rtVars, data_mutex,
                   current_location, audio_running, ptVars, lifeVars>>
    /\ TeardownUnchanged

\* libmicarray.c:378-388: audio_output_cleanup (which stops the sink,
\* audio_output.c:230), localization_cleanup, noise_reduction_cleanup.
MicarrayCleanupComponents ==
    /\ cl_pc = "cleanup_components"
    /\ \E junk \in BOOLEAN : mem' = CleanupComponents(mem, junk)
    /\ audio_running' = FALSE
    /\ cl_pc' = "cleanup_i2s"
    /\ UNCHANGED <<cl_op, cl_ret, cl_req, cl_buf, cl_loc, cl_after_err, i2sVars, rtVars,
                   running, data_mutex, current_location, ptVars, life_pc, life_ret>>
    /\ TeardownUnchanged

\* libmicarray.c:390-392 -> i2s.c:182, 163-167: i2s_cleanup calls i2s_stop, which
\* clears the capture flag and joins the read thread if capture is running.
MicarrayCleanupI2s ==
    /\ cl_pc = "cleanup_i2s"
    /\ i2s_running' = FALSE
    /\ cl_pc' = IF i2s_running THEN "cleanup_i2s_join" ELSE "cleanup_rest"
    /\ UNCHANGED <<cl_op, cl_ret, cl_req, cl_buf, cl_loc, cl_after_err, ring_buffer, write_pos,
                   read_pos, available_samples, i2s_mutex, callback, rtVars, drvVars,
                   ptVars, lifeVars>>
    /\ TeardownUnchanged

\* i2s.c:169-172: the join of the read thread inside i2s_cleanup, if i2s_stop
\* has one to make; then i2s.c:184-190 and libmicarray.c:394-415: the I2S
\* context, the lanes, the mono buffer, logging, the data mutex and the context
\* are released.
MicarrayCleanupRest ==
    /\ cl_pc \in {"cleanup_i2s_join", "cleanup_rest"}
    /\ cl_pc = "cleanup_i2s_join" => rt_pc = "exited"
    /\ rt_pc' = IF cl_pc = "cleanup_i2s_join" THEN "none" ELSE rt_pc
    /\ \E junk \in BOOLEAN : mem' = CleanupRest(mem, junk)
    /\ life_pc' = "cleaned"
    /\ cl_pc' = "cleaned"
    /\ UNCHANGED <<cl_op, cl_ret, cl_req, cl_buf, cl_loc, cl_after_err, i2sVars, temp_buffer,
                   drvVars, ptVars, life_ret>>
    /\ TeardownUnchanged

CopyPc == <<"copy1", "copy2", "copy3", "copy4">>

\* micarray_get_location starting its copy without taking the data mutex.
GetLocationNoLock ==
    /\ Call("get_location")
    /\ cl_pc' = CopyPc[1]
    /\ UNCHANGED <<cl_ret, cl_req, cl_buf, cl_loc, i2sVars, rtVars, drvVars, ptVars, envVars,
                   histVars, io_error>>

\* libmicarray.c:423: pthread_mutex_lock(&ctx->data_mutex).
GetLocationLock ==
    /\ Call("get_location")
    /\ data_mutex = "free"
    /\ data_mutex' = "client"
    /\ cl_pc' = CopyPc[1]
    /\ UNCHANGED <<cl_ret, cl_req, cl_buf, cl_loc, i2sVars, rtVars, running,
                   current_location, audio_running, ptVars, envVars, histVars, io_error>>

\* libmicarray.c:424: *location = ctx->current_location, a field at a time.
GetLocationCopy ==
    \E i \in 1..4 :
        /\ cl_pc = CopyPc[i]
        /\ cl_loc' = [cl_loc EXCEPT ![Fields[i]] = current_location[Fields[i]]]
        /\ cl_pc' = IF i < 4 THEN CopyPc[i + 1] ELSE "copy_unlock"
        /\ UNCHANGED <<cl_op, cl_ret, cl_req, cl_buf, cl_after_err, i2sVars, rtVars,
                       drvVars, ptVars, envVars, histVars, io_error>>

\* libmicarray.c:425-427: unlock and return success.
GetLocationUnlock ==
    /\ cl_pc = "copy_unlock"
    /\ data_mutex' = IF data_mutex = "client" THEN "free" ELSE data_mutex
    /\ Return(MICARRAY_SUCCESS)
    /\ UNCHANGED <<cl_op, cl_req, cl_buf, cl_loc, cl_after_err, i2sVars, rtVars, running,
                   current_location, audio_running, ptVars, envVars, histVars, io_error>>

(***************************************************************************)
(* Spec: the pipeline after a successful micarray_init (libmicarray.c:228: *)
(* audio_callback registered; 300: not running). The device stream is      *)
(* unbounded and not counted, and a read returns a whole buffer or nothing.*)
(***************************************************************************)
PipeEnv == [limit |-> 0, consumer |-> FALSE, counted |-> FALSE, noise |-> FALSE, whole |-> TRUE, lanes |-> 0]

Init ==
    /\ InitI2s
    /\ InitClient
    /\ InitDriver
    /\ InitSink(One)
    /\ InitNoNoise
    /\ InitNoLoc
    /\ InitNoLocks
    /\ InitNoSig
    /\ InitReady
    /\ callback = "audio_callback"
    /\ env = PipeEnv

ReadThreadNext ==
    \/ ReadThreadEntry
    \/ ReadThreadLoop
    \/ ReadThreadRead
    \/ ReadThreadAgain
    \/ ReadThreadError
    \/ ReadThreadLock
    \/ ReadThreadPush
    \/ ReadThreadUnlock
    \/ CallbackEntry
    \/ CallbackLock
    \/ CallbackCopy

ProcNext ==
    \/ ProcCheck
    \/ ProcLock
    \/ ProcLocate
    \/ ProcWriteField
    \/ ProcUnlock
    \/ ProcWrite
    \/ ProcSleep

ClientNext ==
    \/ ClientReturn
    \/ MicarrayStartRunning
    \/ MicarrayStart
    \/ MicarrayStartAudio
    \/ MicarrayStartCreate
    \/ MicarrayStartUndo
    \/ MicarrayStop
    \/ MicarrayStopJoin
    \/ MicarrayStopI2s
    \/ MicarrayStopI2sJoin
    \/ GetLocationLock
    \/ GetLocationCopy
    \/ GetLocationUnlock

Next == ReadThreadNext \/ ProcNext \/ ClientNext

Spec == Init /\ [][Next]_vars

(***************************************************************************)
(* SpecLive: Spec under fair scheduling. Every thread that can take a step *)
(* eventually takes one; a thread waiting for the data mutex gets it if it *)
(* is free again and again; a device read or write always returns (the     *)
(* device is opened O_NONBLOCK, i2s.c:107).                                *)
(***************************************************************************)
StopNext ==
    \/ MicarrayStopJoin
    \/ MicarrayStopI2s
    \/ MicarrayStopI2sJoin

SpecLive ==
    /\ Init
    /\ [][Next]_vars
    /\ WF_vars(ReadThreadNext)
    /\ WF_vars(ProcNext)
    /\ WF_vars(StopNext)
    /\ SF_vars(ProcLock)
    /\ SF_vars(CallbackLock)

(***************************************************************************)
(* Claims about the pipeline.                                              *)
(***************************************************************************)
Range(f) == {f[i] : i \in DOMAIN f}

\* C5: micarray_get_location never hands out a torn location: the value copied
\* out is the initial one or the four fields written by one localization_process
\* call, and every write and every external read of current_location is made
\* with the data mutex held.
C5_LocationNeverTorn ==
    /\ (cl_op = "get_location" /\ cl_pc \in {"copy_unlock", "done"})
          => \E t \in 0..NumLocations : cl_loc = Located(t)
    /\ pt_pc \in Range(WritePc) => data_mutex = "proc"
    /\ cl_pc \in Range(CopyPc) => data_mutex = "client"

\* A reader has returned one call's complete result while the processing thread
\* is half way through writing another.
C5_Witness ==
    /\ cl_op = "get_location"
    /\ cl_pc = "done"
    /\ cl_loc = Located(1)
    /\ pt_pc = "w3"
    /\ current_location.x # 1

\* C6: micarray_stop on a running pipeline clears running before it joins, and
\* under fair scheduling both worker threads leave their loops and are joined:
\* the call returns with no worker thread left.
C6_StopJoinsWorkers ==
    /\ [](cl_pc = "stop_join" => ~running)
    /\ [](cl_pc = "stop_i2s_join" => ~i2s_running)
    /\ (cl_pc = "stop_join")
          ~> (cl_pc = "done" /\ cl_op = "stop" /\ pt_pc = "none" /\ rt_pc = "none")

\* micarray_stop waits at the join while both workers are inside their loops,
\* the processing thread holding the data mutex.
C6_Witness ==
    /\ cl_pc = "stop_join"
    /\ pt_pc = "w2"
    /\ rt_pc = "cb_lock"

StopCall == cl_pc = "idle" /\ cl_op' \in {"stop", "stop_noop"}

\* C7: micarray_stop on a context that is not running returns success at once:
\* no join, no device stop, no change of the context or of the threads.
C7_StopIdempotent ==
    [][(StopCall /\ ~running)
          => (/\ cl_pc' = "done"
              /\ cl_ret' = MICARRAY_SUCCESS
              /\ UNCHANGED <<i2sVars, rtVars, drvVars, ptVars>>)]_vars

\* micarray_stop has returned from a context that an earlier stop had stopped
\* (the ring holds samples of the session that ended).
C7_Witness ==
    /\ cl_op = "stop_noop"
    /\ cl_pc = "done"
    /\ available_samples > 0
    /\ rt_pc = "none"
    /\ pt_pc = "none"

\* C10: a call made after a worker thread met a persistent device error does
\* not return success.
C10_ErrorReported ==
    (cl_pc = "done" /\ cl_after_err) => cl_ret # MICARRAY_SUCCESS

(***************************************************************************)
(* SpecInit: one context from before micarray_init to after                *)
(* micarray_cleanup, never started, with every allocation and every        *)
(* sub-init free to fail, with and without noise reduction.                *)
(***************************************************************************)
InitEnv(noise) == [limit |-> 0, consumer |-> FALSE, counted |-> FALSE, noise |-> noise,
                   whole |-> FALSE, lanes |-> 0]

InitBegin ==
    /\ InitI2s
    /\ InitClient
    /\ InitDriver
    /\ InitSink(One)
    /\ InitNoNoise
    /\ InitNoLoc
    /\ InitNoLocks
    /\ InitNoSig
    /\ callback = "none"
    /\ env \in {InitEnv(noise) : noise \in BOOLEAN}
    /\ life_pc = "begin"
    /\ life_ret = MICARRAY_SUCCESS
    /\ mem = NoMem

NextInit ==
    \/ InitContext
    \/ InitConfig
    \/ InitMutex
    \/ InitLogging
    \/ InitMicBuffers
    \/ InitLane
    \/ InitProcessed
    \/ InitI2sContext
    \/ InitNoise
    \/ InitPositions
    \/ LocContext
    \/ LocArrays
    \/ LocCorrelationBuffers
    \/ LocCorrelationBuffer
    \/ InitAudio
    \/ MicarrayCleanup
    \/ MicarrayCleanupNull

SpecInit == InitBegin /\ [][NextInit]_vars

(***************************************************************************)
(* Claims about micarray_init and micarray_cleanup.                        *)
(***************************************************************************)
\* C8: a second micarray_cleanup on the same context is a no-op: it releases
\* nothing the first call released and reads nothing that has been freed.
C8_SecondCleanupIsNoOp ==
    life_pc \in {"cleaned_again", "aborted"} => mem.ub = {}

\* C9: micarray_init is all-or-nothing: when it has failed, the caller's pointer
\* is NULL, everything it acquired has been released exactly once, and nothing
\* that was never acquired has been released.
C9_InitAllOrNothing ==
    life_pc \in {"failed", "failed_cleaned"}
       => /\ mem.ptr[R("ctx")] = "null"
          /\ \A r \in Resources : mem.heap[r] # "live"
          /\ mem.ub = {}

\* A successful micarray_init without noise reduction leaves what the running
\* specifications start from.
ReadyIsReady ==
    (life_pc = "ready" /\ ~env.noise) => mem = ReadyMem

(***************************************************************************)
(* Claims about the playback sink.                                         *)
(***************************************************************************)
\* The processing thread has just made its write to the sink.
WriteStep == pt_pc = "write" /\ pt_pc' = "wrote"

\* C11: when the sink reports a broken pipe on a write, the write prepares the
\* sink again and returns success; no flag and no error state of the pipeline
\* changes, and the processing thread goes on to the next turn of its loop.
C11_BrokenPipeRecovered ==
    [][/\ (WriteStep /\ pt_write'.frames_written = "EPIPE")
            => /\ pt_write'.result = MICARRAY_SUCCESS
               /\ pt_write'.prepared
               /\ UNCHANGED <<running, i2s_running, audio_running, io_error>>
       /\ (pt_pc = "wrote" /\ pt_pc' # "wrote")
            => (pt_pc' = "check" /\ UNCHANGED <<running, i2s_running, audio_running>>)
      ]_vars

\* A write has met a broken pipe on a running pipeline that has already
\* published a location.
C11_Witness ==
    /\ pt_pc = "wrote"
    /\ pt_write.frames_written = "EPIPE"
    /\ running
    /\ i2s_running
    /\ current_location = Located(NumLocations)

(***************************************************************************)
(* SpecVolume: a started sink (audio_output_init, audio_output_start) whose *)
(* volume came from a configuration file config_validate accepted          *)
(* (libmicarray.c:134, 288; audio_output.c:56), one thread calling the two  *)
(* set_volume entry points with any float, and one thread writing blocks.  *)
(***************************************************************************)
InitVolume ==
    /\ InitI2s
    /\ InitClient
    /\ running = FALSE
    /\ data_mutex = "free"
    /\ current_location = NoLocation
    /\ audio_running = TRUE
    /\ pt_pc = "none"
    /\ pt_loc = 0
    /\ pt_write = NoWrite
    /\ InitReady
    /\ callback = "audio_callback"
    /\ env = PipeEnv
    /\ \E vol \in {f \in Floats : config_validate(f) = MICARRAY_SUCCESS} : InitSink(vol)
    /\ InitNoNoise
    /\ InitNoLoc
    /\ InitNoLocks
    /\ InitNoSig

NextVolume ==
    \/ MicarraySetVolume
    \/ AudioOutputSetVolume
    \/ SetVolumeLock
    \/ SetVolumeStore
    \/ SetVolumeUnlock
    \/ WriteStereoLock
    \/ WriteStereoScale
    \/ WriteStereoUnlock

SpecVolume == InitVolume /\ [][NextVolume]_vars

InUnit(f) == ~f.nan /\ Zero.v <= f.v /\ f.v <= One.v

\* C12: whatever the arguments of the set_volume calls made so far, a call
\* stores a volume within [0, 1] (1.0 for an argument above 1, 0.0 for an
\* argument below 0), and once a call has stored one, the volume the sink
\* holds and every volume a write scales its samples by is within [0, 1].
C12_VolumeClamped ==
    [][/\ (sv_pc = "store" /\ sv_pc' = "unlock") =>
            /\ InUnit(volume')
            /\ (~sv_arg.nan /\ sv_arg.v > One.v) => volume' = One
            /\ (~sv_arg.nan /\ sv_arg.v < Zero.v) => volume' = Zero
       /\ sv_done' => InUnit(volume')
       /\ (sv_done /\ ws_pc = "scale" /\ ws_pc' = "unlock") => InUnit(ws_gain')]_vars

\* micarray_set_volume(1.5) took effect as 1.0 and a write was scaled by it,
\* while the micarray context keeps the 1.5 it was given.
C12_Witness ==
    /\ sv_done
    /\ cfg_volume = F(15)
    /\ volume = One
    /\ ws_pc = "unlock"
    /\ ws_gain = One

(***************************************************************************)
(* SpecNoise: one denoiser context used directly: created with any frame   *)
(* parameters, fed blocks of any length at whatever fill level the         *)
(* accumulator has reached, destroyed and created again.                   *)
(***************************************************************************)
InitNoise0 ==
    /\ InitI2s
    /\ InitClient
    /\ InitDriver
    /\ InitReady
    /\ InitSink(One)
    /\ InitNoNoise
    /\ InitNoLoc
    /\ InitNoLocks
    /\ InitNoSig
    /\ callback = "none"
    /\ env = PipeEnv

NextNoise ==
    \/ NoiseReductionInit
    \/ NoiseProcessCall
    \/ NoiseProcessIter
    \/ NoiseProcessReturn
    \/ NoiseReductionCleanup

SpecNoise == InitNoise0 /\ [][NextNoise]_vars

ValidFrame(config) ==
    /\ config.frame_size \in {2, 4}
    /\ config.overlap >= 0
    /\ config.overlap < config.frame_size

\* C13: when noise_reduction_process returns, it has written every output
\* position 0 .. samples-1, whatever `samples` and the accumulator's fill level
\* at entry were (on a context with valid frame parameters).
C13_EveryPositionWritten ==
    [][(nr_pc = "loop" /\ nr_pc' = "ready" /\ ValidFrame(nr_config))
          => nr_written' = 0..(nr_samples - 1)]_vars

\* C16: a context exists only with valid frame parameters, so the loop of
\* noise_reduction_process never runs with a hop size <= 0.
C16_InvalidFrameRejected ==
    /\ nr_pc # "none" => ValidFrame(nr_config)
    /\ nr_pc = "loop" => hop_size > 0

(***************************************************************************)
(* SpecLoc: a localizer context of three or four microphones in one of the *)
(* layouts, given frame after frame.                                       *)
(***************************************************************************)
InitLoc ==
    /\ InitI2s
    /\ InitClient
    /\ InitDriver
    /\ InitReady
    /\ InitSink(One)
    /\ InitNoNoise
    /\ callback = "none"
    /\ env = PipeEnv
    /\ loc_ctx \in LocContexts
    /\ loc_call = NoCall
    /\ loc_res = NoResult
    /\ InitNoLocks
    /\ InitNoSig

NextLoc == LocalizationProcess \/ LocalizationTaken

SpecLoc == InitLoc /\ [][NextLoc]_vars

\* C14: when the trilateration system is degenerate (fewer than three
\* equations, or a zero pivot), the location is the origin and carries the
\* average confidence computed for the frame.
C14_DegenerateKeepsConfidence ==
    loc_res.path \in {"few_equations", "zero_pivot"} =>
        /\ loc_res.location.origin
        /\ loc_res.location.confidence = loc_res.avg_confidence

\* C15: the confidence of every location produced is within [0, 1].
C15_ConfidenceInUnit ==
    loc_res.path # "none" =>
        /\ 0 <= loc_res.location.confidence
        /\ loc_res.location.confidence <= 100

(***************************************************************************)
(* SpecNull: a client that passes NULL pointers to the public operations   *)
(* while a driver context and a denoiser context exist and are in use.     *)
(***************************************************************************)
NextNull ==
    \/ NullCall
    \/ ClientReturn
    \/ NoiseReductionInit
    \/ NoiseProcessCall
    \/ NoiseProcessIter
    \/ NoiseProcessReturn
    \/ NoiseReductionCleanup

SpecNull == InitNoise0 /\ [][NextNull]_vars

NullCallStep == cl_pc = "idle" /\ cl_pc' = "done"

\* C17: a public operation called with a NULL required pointer returns
\* MICARRAY_ERROR_INVALID_PARAM and changes nothing: no field of any context,
\* no resource, no thread.
C17_NullRejected ==
    [][NullCallStep =>
          /\ cl_ret' = MICARRAY_ERROR_INVALID_PARAM
          /\ UNCHANGED <<i2sVars, rtVars, drvVars, ptVars, env, lifeVars, volVars, nrVars,
                         locVars, lkVars, sigVars, histVars, io_error>>]_vars

\* micarray_get_location(ctx, NULL) on a live context, with a denoiser context
\* in the middle of its work, was turned away.
C17_Witness ==
    /\ cl_pc = "done"
    /\ cl_op = "micarray_get_location"
    /\ cl_req = 1
    /\ cl_ret = MICARRAY_ERROR_INVALID_PARAM
    /\ life_pc = "ready"
    /\ nr_pc = "ready"
    /\ buffer_pos > 0
    /\ mem.ub = {}

(***************************************************************************)
(* The ring's counters where its mutex is released (i2s.c:62, 210, 237).   *)
(***************************************************************************)
\* A thread is about to release the mutex it holds.
RingRelease == rt_pc = "unlock" \/ cl_pc = "pop_unlock" \/ cl_pc = "level_unlock"

\* C18 as stated: at every release of the ring's mutex,
\* available_samples = (write_pos - read_pos) mod capacity.
C18_AvailableIsDistance ==
    RingRelease => available_samples = (write_pos - read_pos) % Capacity

\* C18: at every release of the ring's mutex, available_samples is within
\* 0..capacity and congruent to write_pos - read_pos modulo capacity: equal to
\* (write_pos - read_pos) mod capacity unless the ring is full, where
\* available_samples = capacity and write_pos = read_pos.
C18_AvailableCongruent ==
    RingRelease =>
        /\ i2s_mutex # "free"
        /\ available_samples \in 0..Capacity
        /\ available_samples % Capacity = (write_pos - read_pos) % Capacity

\* The read thread releases the mutex of a ring that is full after wrapping:
\* the distance is 0 and available_samples is the capacity.
C18_Witness ==
    /\ rt_pc = "unlock"
    /\ i2s_mutex = "reader"
    /\ available_samples = Capacity
    /\ write_pos = read_pos
    /\ read_pos > 0

(***************************************************************************)
(* SpecLocks: the capture thread, the processing thread and one API caller *)
(* of a started driver, each running its operations over and over, seen as *)
(* the mutexes they lock and unlock.                                       *)
(***************************************************************************)
InitLocks ==
    /\ InitI2s
    /\ InitClient
    /\ InitDriver
    /\ InitReady
    /\ InitSink(One)
    /\ InitNoNoise
    /\ InitNoLoc
    /\ InitNoLocks
    /\ InitNoSig
    /\ callback = "audio_callback"
    /\ env = PipeEnv

NextLocks ==
    \E t \in Threads :
        \/ OperationBegin(t)
        \/ MutexLock(t)
        \/ MutexUnlock(t)
        \/ OperationEnd(t)

SpecLocks == InitLocks /\ [][NextLocks]_vars

\* A set of threads each waiting for a mutex that a thread of the set holds.
CyclicWait(S) ==
    /\ S # {}
    /\ \A t \in S : Waiting(t) /\ lk_holder[NextStep(t).mutex] \in S

\* C19: no thread holds the ring's mutex and the data mutex together, and no
\* set of threads waits in a cycle for the ring, data, audio and logging
\* mutexes: some thread can always take its next step.
C19_NoDeadlock ==
    /\ \A t \in Threads : ~({"ring", "data"} \subseteq Held(t))
    /\ \A S \in SUBSET Threads : ~CyclicWait(S)
    /\ \E t \in Threads : ~Waiting(t)

\* The one nesting there is, under contention: the processing thread holds the
\* data mutex and waits for the logging mutex the caller holds, while the
\* capture thread waits for the data mutex.
C19_Witness ==
    /\ Held("processing") = {"data"}
    /\ Waiting("processing")
    /\ Held("caller") = {"logging"}
    /\ Waiting("capture")
    /\ NextStep("capture").mutex = "data"

(***************************************************************************)
(* The capture thread and the processing thread's data mutex.              *)
(***************************************************************************)
\* C20: while it delivers a chunk, the capture thread never waits for a mutex
\* the processing thread holds while it denoises, localizes or downmixes: it
\* is never at the pthread_mutex_lock of audio_callback with the data mutex
\* in the processing thread's hands.
C20_CaptureNeverWaitsForProcessing ==
    ~(rt_pc = "cb_lock" /\ data_mutex = "proc")

(***************************************************************************)
(* SpecLanes: the pipeline of Spec with two microphones, where the chunk   *)
(* the lanes hold is followed from the callback that stored it to the      *)
(* iterations of the processing thread that read it.                       *)
(***************************************************************************)
LaneEnv == [limit |-> 0, consumer |-> FALSE, counted |-> FALSE, noise |-> FALSE,
            whole |-> TRUE, lanes |-> 2]

InitLanes ==
    /\ InitI2s
    /\ InitClient
    /\ InitDriver
    /\ InitSink(One)
    /\ InitNoNoise
    /\ InitNoLoc
    /\ InitNoLocks
    /\ InitNoSig
    /\ InitReady
    /\ callback = "audio_callback"
    /\ env = LaneEnv

SpecLanes == InitLanes /\ [][Next]_vars

\* A step of the processing thread through libmicarray.c:73-97, and a step of
\* the callback through libmicarray.c:52-59.
ProcessesLanes == pt_pc = "locate" /\ pt_pc' = "w1"
StoresChunk == rt_pc = "cb_copy" /\ rt_pc' = "loop"

\* C21: every chunk the callback de-interleaved is consumed by exactly one
\* iteration of the processing thread: no iteration processes lanes an earlier
\* iteration has processed already, and no callback overwrites a chunk that no
\* iteration has processed.
C21_ChunkProcessedOnce ==
    [][/\ ProcessesLanes => lane_chunk # "processed"
       /\ StoresChunk => lane_chunk # "fresh"]_vars

(***************************************************************************)
(* SpecBlock: the contents of the lanes and of the mono buffer. The        *)
(* context is the one micarray_init leaves (libmicarray.c:184-199: every   *)
(* lane and the mono buffer are calloc'ed with dma_buffer_size entries),   *)
(* with noise reduction off; audio_callback is called with chunks of at    *)
(* most dma_buffer_size samples (i2s.c:40-41, 52: the read thread reads    *)
(* into a buffer of buffer_size samples), and the processing thread runs   *)
(* its iteration on the lanes.                                             *)
(***************************************************************************)
BlockSize == 4
Samples == {-3, 32767}
Int16(v) == ((v + 32768) % 65536) - 32768

\* libmicarray.c:52-59: the loop from index i on. A store at a sample_idx
\* beyond the lane's dma_buffer_size entries is out of bounds.
RECURSIVE CallbackLoop(_, _, _, _, _)
CallbackLoop(M, lanes, data, samples, i) ==
    IF i >= samples THEN [lanes |-> lanes, oob |-> FALSE]
    ELSE LET mic_idx == i % M
             sample_idx == i \div M
         IN IF sample_idx < samples \div M
            THEN IF sample_idx < BlockSize
                 THEN CallbackLoop(M, [lanes EXCEPT ![mic_idx][sample_idx] = data[i]],
                                   data, samples, i + 1)
                 ELSE [lanes |-> lanes, oob |-> TRUE]
            ELSE CallbackLoop(M, lanes, data, samples, i + 1)

\* The de-interleave with the two indices exchanged.
CallbackTransposed(isRunning, M, lanes, data, samples) ==
    IF ~isRunning THEN [lanes |-> lanes, oob |-> FALSE]
    ELSE [lanes |-> [c \in 0..(M - 1) |-> [k \in 0..(BlockSize - 1) |->
                        IF k < samples \div M /\ k + c * (samples \div M) < samples
                        THEN data[k + c * (samples \div M)] ELSE lanes[c][k]]],
          oob |-> FALSE]

\* The de-interleave that stores the trailing partial frame too.
CallbackPartialFrame(isRunning, M, lanes, data, samples) ==
    IF ~isRunning THEN [lanes |-> lanes, oob |-> FALSE]
    ELSE [lanes |-> [c \in 0..(M - 1) |-> [k \in 0..(BlockSize - 1) |->
                        IF c + k * M < samples THEN data[c + k * M] ELSE lanes[c][k]]],
          oob |-> FALSE]

\* libmicarray.c:43-62.
audio_callback(isRunning, M, lanes, data, samples) ==
    IF ~isRunning THEN [lanes |-> lanes, oob |-> FALSE]
    ELSE CallbackLoop(M, lanes, data, samples, 0)

\* libmicarray.c:93-96 for one j: the loop over the microphones from i on, with
\* acc the value of processed_buffer[j].
RECURSIVE DownmixLoop(_, _, _, _, _)
DownmixLoop(M, lanes, j, i, acc) ==
    IF i >= M THEN acc
    ELSE LET sum == acc + lanes[i][j]
         IN DownmixLoop(M, lanes, j, i + 1, Int16(TruncDiv(sum, M)))

\* libmicarray.c:91-97: memset, then the two loops.
Downmix(M, lanes) == [j \in 0..(BlockSize - 1) |-> DownmixLoop(M, lanes, j, 0, 0)]

BlockUnchanged ==
    UNCHANGED <<i2sVars, rtVars, ptVars, clVars, env, lifeVars, volVars, nrVars, locVars,
                lkVars, lane_chunk, srcVars, panVars, profVars, histVars, io_error>>

\* i2s.c:64-66 -> libmicarray.c:43-62: one call of the callback, from its
\* entry to its return.
AudioCallback ==
    /\ cb_calls < 2
    /\ \E samples \in 0..BlockSize :
          \E data \in [0..(samples - 1) -> Samples] :
             LET r == audio_callback(running, num_microphones, mic_buffers, data, samples)
             IN /\ mic_buffers' = r.lanes
                /\ cb_oob' = (cb_oob \/ r.oob)
                /\ cb_data' = data
    /\ cb_calls' = cb_calls + 1
    /\ blk_pc' = "stored"
    /\ UNCHANGED <<num_microphones, processed_buffer, drvVars>>
    /\ BlockUnchanged

\* libmicarray.c:70-99: one iteration of the processing thread with noise
\* reduction off: localization_process writes the location, then the downmix.
ProcessBlock ==
    /\ running
    /\ \E t \in Locations : current_location' = Located(t)
    /\ processed_buffer' = Downmix(num_microphones, mic_buffers)
    /\ blk_pc' = "mixed"
    /\ UNCHANGED <<num_microphones, mic_buffers, cb_data, cb_calls, cb_oob, running, data_mutex,
                   audio_running>>
    /\ BlockUnchanged

InitBlock ==
    /\ InitI2s
    /\ InitClient
    /\ data_mutex = "free"
    /\ current_location = NoLocation
    /\ audio_running = FALSE
    /\ pt_pc = "none"
    /\ pt_loc = 0
    /\ pt_write = NoWrite
    /\ running \in BOOLEAN
    /\ InitSink(One)
    /\ InitNoNoise
    /\ InitNoLoc
    /\ InitNoLocks
    /\ InitReady
    /\ callback = "audio_callback"
    /\ env = PipeEnv
    /\ lane_chunk = "none"
    /\ num_microphones \in 1..NumMics
    /\ mic_buffers = [c \in 0..(num_microphones - 1) |-> [k \in 0..(BlockSize - 1) |-> 0]]
    /\ processed_buffer = [k \in 0..(BlockSize - 1) |-> 0]
    /\ cb_data = <<>>
    /\ cb_calls = 0
    /\ cb_oob = FALSE
    /\ blk_pc = "none"
    /\ InitNoSrc
    /\ InitNoPan
    /\ InitNoProfile

NextBlock == AudioCallback \/ ProcessBlock

SpecBlock == InitBlock /\ [][NextBlock]_vars

\* The number of samples of the last chunk.
ChunkLen == Cardinality(DOMAIN cb_data)

\* C22: after the downmix, mono[j] is the sum of the lanes at j divided by
\* the number of microphones, for every j.
C22_MonoIsAverage ==
    blk_pc = "mixed" =>
        \A j \in 0..(BlockSize - 1) :
            processed_buffer[j] =
                TruncDiv(SumOver([c \in 0..(num_microphones - 1) |-> mic_buffers[c][j]],
                                 0..(num_microphones - 1)), num_microphones)

\* C24: for a chunk of n interleaved samples, n a multiple of the number of
\* microphones M, the callback stores the sample at position c + k*M into
\* lane c at index k.
C24_DeinterleavedByPosition ==
    (blk_pc = "stored" /\ running /\ ChunkLen % num_microphones = 0) =>
        \A c \in 0..(num_microphones - 1) :
            \A k \in 0..((ChunkLen \div num_microphones) - 1) :
                mic_buffers[c][k] = cb_data[c + k * num_microphones]

\* Two whole frames or more for two microphones or more, with samples that
\* differ, stored over an earlier chunk.
C24_Witness ==
    /\ blk_pc = "stored"
    /\ running
    /\ cb_calls = 2
    /\ num_microphones >= 2
    /\ ChunkLen = 2 * num_microphones
    /\ cb_data[1] # cb_data[num_microphones]
    /\ cb_data[0] # cb_data[1]

\* A step that is one call of audio_callback.
CallbackStep == cb_calls' = cb_calls + 1

\* C25: a call of the callback with n <= B samples writes only the lane
\* indices below floor(n/M) and never outside the B entries of a lane: the
\* trailing partial frame is discarded, every other lane entry, the mono
\* buffer and current_location are left as they were; when running is false
\* the call writes nothing.
C25_CallbackWritesWholeFramesOnly ==
    [][CallbackStep =>
        LET n == Cardinality(DOMAIN cb_data')
            M == num_microphones
        IN /\ ~cb_oob'
           /\ DOMAIN mic_buffers' = 0..(M - 1)
           /\ \A c \in 0..(M - 1) :
                 /\ DOMAIN mic_buffers'[c] = 0..(BlockSize - 1)
                 /\ \A k \in 0..(BlockSize - 1) :
                       IF running /\ k < n \div M
                       THEN mic_buffers'[c][k] = cb_data'[c + k * M]
                       ELSE mic_buffers'[c][k] = mic_buffers[c][k]
           /\ processed_buffer' = processed_buffer
           /\ current_location' = current_location
           /\ ~running => mic_buffers' = mic_buffers]_vars

\* A chunk with whole frames and a trailing partial frame, stored over the
\* lanes of an earlier, longer chunk and after a downmix.
C25_Witness ==
    /\ blk_pc = "stored"
    /\ running
    /\ cb_calls = 2
    /\ num_microphones >= 2
    /\ ChunkLen > num_microphones
    /\ ChunkLen % num_microphones # 0
    /\ mic_buffers[0][ChunkLen \div num_microphones] # 0
    /\ mic_buffers[0][ChunkLen \div num_microphones] # cb_data[ChunkLen - 1]
    /\ \E j \in 0..(BlockSize - 1) : processed_buffer[j] # 0

(***************************************************************************)
(* SpecDenoise: the denoising of the processing thread's iterations        *)
(* (libmicarray.c:73-80): one call of noise_reduction_process per lane, in *)
(* place, of dma_buffer_size samples, all on the one context micarray_init *)
(* created (libmicarray.c:230-241: overlap is half the frame size).        *)
(***************************************************************************)
DenoiseEnv == [limit |-> 0, consumer |-> FALSE, counted |-> FALSE, noise |-> TRUE,
               whole |-> TRUE, lanes |-> 0]

DenoiseUnchanged ==
    UNCHANGED <<i2sVars, rtVars, drvVars, ptVars, clVars, env, lifeVars, volVars, locVars,
                lkVars, lane_chunk, blkVars, panVars, profVars, histVars, io_error>>

\* libmicarray.c:74-79: the call for lane dn_lane.
ProcDenoise ==
    /\ env.noise
    /\ nr_pc = "ready"
    /\ dn_lane < num_microphones
    /\ nr_channel' = dn_lane
    /\ dn_lane' = dn_lane + 1
    /\ nr_samples' = BlockSize
    /\ processed' = 0
    /\ nr_written' = {}
    /\ out_src' = {}
    /\ nr_pc' = "loop"
    /\ UNCHANGED <<nr_config, buffer_pos, nr_ret, input_src, overlap_src>>
    /\ DenoiseUnchanged

\* libmicarray.c:74, 69: the loop over the lanes is over; the next iteration
\* of the thread begins it again.
ProcDenoiseDone ==
    /\ env.noise
    /\ nr_pc = "ready"
    /\ dn_lane = num_microphones
    /\ dn_lane' = 0
    /\ UNCHANGED <<nrVars, nr_channel, input_src, overlap_src, out_src>>
    /\ DenoiseUnchanged

InitDenoise ==
    /\ InitI2s
    /\ InitClient
    /\ InitDriver
    /\ InitReady
    /\ InitSink(One)
    /\ InitNoLoc
    /\ InitNoLocks
    /\ callback = "audio_callback"
    /\ env = DenoiseEnv
    /\ lane_chunk = "none"
    /\ num_microphones \in 1..NumMics
    /\ mic_buffers = <<>>
    /\ processed_buffer = <<>>
    /\ cb_data = <<>>
    /\ cb_calls = 0
    /\ cb_oob = FALSE
    /\ blk_pc = "none"
    /\ InitNoSrc
    /\ InitNoPan
    /\ InitNoProfile
    /\ nr_pc = "ready"
    /\ nr_config \in {[frame_size |-> f, overlap |-> f \div 2] : f \in {2, 3, 4}}
    /\ buffer_pos = 0
    /\ nr_samples = 0
    /\ processed = 0
    /\ nr_written = {}
    /\ nr_ret = MICARRAY_SUCCESS

NextDenoise ==
    \/ ProcDenoise
    \/ NoiseProcessIter
    \/ NoiseProcessReturn
    \/ ProcDenoiseDone

SpecDenoise == InitDenoise /\ [][NextDenoise]_vars

\* C23: the denoiser's output for a channel is computed from that channel's
\* stream only: no accumulator content, overlap tail or buffer position left
\* by a call for another channel takes part in it.
C23_OutputFromOwnChannel == out_src \subseteq {nr_channel}

(***************************************************************************)
(* The order of the releases of micarray_init's error paths and of         *)
(* micarray_cleanup, under SpecInit.                                       *)
(***************************************************************************)
\* The place of r in the order of acquisition.
AcquiredAt(r) == CHOOSE i \in DOMAIN mem.acquired : mem.acquired[i] = r

\* The releases so far, but for the temporary array of positions, which
\* micarray_init frees itself on every path (libmicarray.c:275).
IsKept(r) == r # R("mic_positions")
ReleasedKept == SelectSeq(mem.released, IsKept)

\* C26: what micarray_init acquired is released, by micarray_cleanup and by
\* every error path of micarray_init, in exactly the reverse of the order of
\* acquisition.
C26_ReleasedInReverse ==
    \A i, j \in DOMAIN ReleasedKept :
        i < j => AcquiredAt(ReleasedKept[i]) > AcquiredAt(ReleasedKept[j])

(***************************************************************************)
(* SpecTeardown: the pipeline of Spec, whose user may call                 *)
(* micarray_cleanup at any point between two calls.                        *)
(***************************************************************************)
CleanupNext ==
    \/ MicarrayCleanupStop
    \/ MicarrayCleanupComponents
    \/ MicarrayCleanupI2s
    \/ MicarrayCleanupRest

NextTeardown == Next \/ CleanupNext

SpecTeardown == Init /\ [][NextTeardown]_vars

\* What the worker threads use: the lanes, the mono buffer, the contexts of
\* the components, the data mutex, and the context that holds them.
WorkerResources ==
    {R(n) : n \in {"ctx", "data_mutex", "log_ctx", "mic_buffers", "processed_buffer",
                   "i2s_ctx", "noise_ctx", "loc_ctx", "loc_arrays", "correlation_buffers",
                   "audio_ctx"}}
        \cup {<<"mic_buffer", i>> : i \in Mics}
        \cup {<<"correlation_buffer", i>> : i \in Mics}

WorkersTerminated == pt_pc \in {"none", "exited"} /\ rt_pc \in {"none", "exited"}

\* C27: when micarray_cleanup is called on a running pipeline, the processing
\* thread and the capture read thread have both terminated before any lane,
\* the mono buffer, any component context or the data mutex is released.
C27_WorkersEndBeforeRelease ==
    (\E r \in WorkerResources : mem.heap[r] = "freed") => WorkersTerminated

\* micarray_cleanup has released everything of a pipeline that was running
\* when it was called and whose processing thread had stored a location.
C27_Witness ==
    /\ cl_op = "cleanup"
    /\ life_pc = "cleaned"
    /\ current_location # NoLocation
    /\ \A r \in WorkerResources \ {R("noise_ctx")} : mem.heap[r] = "freed"

(***************************************************************************)
(* Planar microphone arrays, under SpecLoc.                                *)
(***************************************************************************)
\* All the microphones of the context have the z coordinate of the first.
SameZ(ctx) ==
    \A i \in 0..(ctx.num_microphones - 1) :
        ~IsNaN(ctx.mic_positions[i][3]) /\ ctx.mic_positions[i][3] = ctx.mic_positions[0][3]

\* Every coordinate of every microphone of the context is a number.
FinitePositions(ctx) ==
    \A i \in 0..(ctx.num_microphones - 1) : \A c \in 1..3 : ~IsNaN(ctx.mic_positions[i][c])

Coordinates == {-200, -1, 0, 1, 10}
Confidences == {-10, 0, 5, 10}
MonoSamples == {-32768, -1, 0, 1, 20000, 32767}
MonoBlocks == {<<m>> : m \in MonoSamples} \cup
              {<<m, n>> : m \in {-32768, 32767}, n \in MonoSamples}
PanLocations == {l \in [x : Coordinates, y : Coordinates, confidence : Confidences] :
                    l.x = 0 \/ l.y = 0}

\* audio_output.c:25, 28-29: pan = atan2f(y, x) / M_PI clamped to [-1, 1], in halves.
Pan(location) ==
    IF location.y = 0 THEN (IF location.x < 0 THEN 2 ELSE 0)
    ELSE IF location.y > 0 THEN 1 ELSE -1

\* audio_output.c:26: sqrtf(x * x + y * y), of a point of an axis.
Distance(location) == Abs(location.x) + Abs(location.y)

\* audio_output.c:31-32: 1 / (1 + distance * 0.1) clamped to [0.1, 1], as the
\* fraction 10 / AttenuationDen.
AttenuationDen(location) == Min(100, 10 + Distance(location))

\* audio_output.c:34, 37: (1 - pan) * 0.5 + 0.5, times the attenuation and
\* the confidence.
left_gain(location) ==
    [num |-> (4 - Pan(location)) * 10 * location.confidence,
     den |-> 4 * AttenuationDen(location) * 10]

\* audio_output.c:35, 38.
right_gain(location) ==
    [num |-> (4 + Pan(location)) * 10 * location.confidence,
     den |-> 4 * AttenuationDen(location) * 10]

\* The float product mono_data[i] * gain, cut to its integer part as the
\* conversion to an integer does.
Product(mono, gain) == TruncDiv(mono * gain.num, gain.den)

clip_i16(v) == IF v < -32768 THEN -32768 ELSE Min(32767, v)

\* (int16_t) of a float (audio_output.c:41-42): the integer part where int16_t
\* can represent it; the conversion is undefined otherwise, and a build then
\* keeps the low 16 bits or saturates.
Builds == {"wraps", "saturates"}
ToInt16(v, build) ==
    IF v \in -32768..32767 THEN v
    ELSE IF build = "wraps" THEN Int16(v) ELSE clip_i16(v)

\* audio_output.c:23-44.
apply_stereo_panning(mono_data, location, build) ==
    [left |-> [i \in DOMAIN mono_data |->
                  ToInt16(Product(mono_data[i], left_gain(location)), build)],
     right |-> [i \in DOMAIN mono_data |->
                  ToInt16(Product(mono_data[i], right_gain(location)), build)]]

PanUnchanged ==
    UNCHANGED <<i2sVars, rtVars, drvVars, ptVars, clVars, env, lifeVars, volVars, nrVars,
                locVars, lkVars, lane_chunk, blkVars, srcVars, profVars, histVars, io_error>>

\* audio_output.c:286-300: audio_output_write_localized mixes a block.
ApplyStereoPanning ==
    /\ pan_call = NoPan
    /\ \E mono_data \in MonoBlocks, location \in PanLocations, build \in Builds :
          /\ pan_call' = [mono_data |-> mono_data, location |-> location]
          /\ pan_out' = apply_stereo_panning(mono_data, location, build)
    /\ PanUnchanged

\* audio_output.c:302-310: the two channels are written and the call returns.
PanReturn ==
    /\ pan_call # NoPan
    /\ pan_call' = NoPan
    /\ pan_out' = NoStereo
    /\ PanUnchanged

NextPan == ApplyStereoPanning \/ PanReturn

SpecPan == InitNoise0 /\ [][NextPan]_vars

\* C29: every stereo sample the spatial mixer produces is the mono sample
\* times the gain of its channel, clipped to [-32768, 32767]: no product
\* outside that range wraps around.
C29_MixerClips ==
    \A i \in DOMAIN pan_out.left :
        /\ pan_out.left[i] =
              clip_i16(Product(pan_call.mono_data[i], left_gain(pan_call.location)))
        /\ pan_out.right[i] =
              clip_i16(Product(pan_call.mono_data[i], right_gain(pan_call.location)))

(***************************************************************************)
(* SpecProfile: the noise profile of one denoiser context, trained with    *)
(* noise segments of any length. The spectrum is kept as the windowed      *)
(* frames whose per-bin magnitudes were averaged into it: the FFT is       *)
(* one-to-one, so the bins are all zero exactly when every sample of every *)
(* windowed frame is.                                                      *)
(***************************************************************************)
NoiseSegments == UNION {[1..n -> {0, 1}] : n \in 0..MaxSamples}

\* noise_reduction.c:31-36: the Hanning window is zero at both ends of a
\* frame and not in between.
apply_hanning_window(data) == SubSeq(data, 2, Len(data) - 1)

\* noise_reduction.c:193-209: the frames the while loop transforms, from
\* `processed` on.
RECURSIVE ProfileFrames(_, _, _)
ProfileFrames(noise_samples, frame_size, done) ==
    IF done + frame_size <= Len(noise_samples)
    THEN <<apply_hanning_window(SubSeq(noise_samples, done + 1, done + frame_size))>>
         \o ProfileFrames(noise_samples, frame_size, done + (frame_size \div 2))
    ELSE <<>>

\* noise_reduction.c:183-219: line 188 clears the spectrum before the loop;
\* lines 211-216 average and set the flag only if a frame was transformed.
noise_reduction_update_noise_profile(ready, frame_size, noise_samples, given) ==
    IF ~given
    THEN [ret |-> MICARRAY_ERROR_INVALID_PARAM, cleared |-> FALSE, frames |-> <<>>,
          ready |-> ready]
    ELSE LET frames == ProfileFrames(noise_samples, frame_size, 0)
         IN [ret |-> MICARRAY_SUCCESS, cleared |-> TRUE, frames |-> frames,
             ready |-> IF Len(frames) > 0 THEN TRUE ELSE ready]

NoiseUpdateProfile ==
    /\ nr_pc = "ready"
    /\ \E noise_samples \in NoiseSegments, given \in BOOLEAN :
        LET r == noise_reduction_update_noise_profile(noise_profile_ready,
                     nr_config.frame_size, noise_samples, given)
        IN /\ nr_ret' = r.ret
           /\ nr_samples' = Len(noise_samples)
           /\ noise_spectrum' = IF r.cleared THEN r.frames ELSE noise_spectrum
           /\ noise_profile_ready' = r.ready
    /\ UNCHANGED <<nr_pc, nr_config, buffer_pos, processed, nr_written>>
    /\ UNCHANGED <<i2sVars, rtVars, drvVars, ptVars, clVars, env, lifeVars, volVars,
                   locVars, lkVars, lane_chunk, blkVars, srcVars, panVars, histVars,
                   io_error>>

NextProfile ==
    \/ NoiseReductionInit
    \/ NoiseUpdateProfile
    \/ NoiseReductionCleanup

SpecProfile == InitNoise0 /\ [][NextProfile]_vars

\* Every bin of the spectrum is zero.
ZeroSpectrum(spectrum) ==
    \A k \in DOMAIN spectrum : \A j \in DOMAIN spectrum[k] : spectrum[k][j] = 0

\* A call of noise_reduction_update_noise_profile with fewer than frame_size
\* samples on a trained profile.
ShortUpdate ==
    /\ nr_pc = "ready"
    /\ nr_pc' = "ready"
    /\ noise_profile_ready
    /\ nr_samples' < nr_config.frame_size

\* C30: noise_reduction_update_noise_profile called with fewer than
\* frame_size samples leaves a trained profile as it was: the per-bin noise
\* spectrum and the ready flag keep their values.
C30_ShortSegmentKeepsProfile ==
    [][ShortUpdate =>
          /\ \/ noise_spectrum' = noise_spectrum
             \/ ZeroSpectrum(noise_spectrum') /\ ZeroSpectrum(noise_spectrum)
          /\ noise_profile_ready' = noise_profile_ready]_vars

====
